---- MODULE Spec2Model ----
(***************************************************************************)
(* Model of the PSA agent backend: the process-wide EventBus               *)
(* (backend/app/events/bus.py), its SSE subscriber (backend/app/main.py)   *)
(* and the profitability baseline/delta tracker                            *)
(* (backend/app/agents/profitability.py over                               *)
(* backend/app/services/profitabilityService.py).                          *)
(***************************************************************************)
EXTENDS Integers, Sequences, FiniteSets, TLC

(***************************************************************************)
(* Bounds and finite domains                                               *)
(***************************************************************************)
\* number of BusinessEvents emitted in one run
MaxEvents == 2
\* number of subscribe calls made with generic callbacks in one run
MaxSubscribes == 1
\* cap on the EventBus objects a construction may allocate (only a faulty
\* __new__ allocates more than one)
MaxInstances == 2

\* coroutines that call event_bus.emit (orchestrator, resource and project agents)
Producers == {1, 2}
\* arbitrary async callbacks handed to subscribe(); their await may suspend
GenericHandlers == {"g1"}
\* SSE connections; each owns one handle_event closure and one asyncio.Queue
Conns == {"c1"}
\* a second SSE connection, opened only where two connections are explored
LateConns == {"c2"}
AllConns == Conns \cup LateConns
Handlers == GenericHandlers \cup AllConns
Events == 1..MaxEvents
\* number of tool calls the executor (project_management_agent) makes
MaxExecutorCalls == 1
\* emit calls of handle_resource_management in one run: the start event
\* (line 579), the completion event (640) and the ERROR event (660)
EmitsPerRequest == 3
\* ids of all events: those of the producers, of one request and of one
\* tool call of the executor
EmitIds == 1..(MaxEvents + EmitsPerRequest + MaxExecutorCalls)

VARIABLES
    instance,     \* EventBus._instance: 0 is None, otherwise the object's id
    nInst,        \* number of EventBus objects allocated (subscriber lists created)
    refs,         \* ids returned by EventBus() so far
    subscribers,  \* _instance.subscribers, a Python list of callbacks
    prod,         \* per producer: position inside emit
    nextEv,       \* id of the next event; ids follow the order of the emit calls
    queue,        \* per SSE connection: its asyncio.Queue
    conn,         \* per SSE connection: position of event_generator
    nSub,         \* number of generic subscribe calls made so far
    rebuilt,      \* history: EventBus() was called again while handlers were subscribed
    log,          \* history: per handler, the events it was invoked with, in order
    present,      \* history: per event, the handlers subscribed when emit was called
    stable,       \* history: per event, the handlers subscribed from the emit call on
    raisedAt      \* history: per event, the handler whose exception left emit,
                  \* "cancelled" when the awaiting task was cancelled, else "none"

busVars == <<instance, nInst, refs, subscribers, prod, nextEv, queue, conn, nSub,
             rebuilt, log, present, stable, raisedAt>>

VARIABLES
    store,    \* table project_profitability_snapshots, in insertion order; id = index
    created,  \* _project_baselines_created
    clock,    \* datetime.utcnow(), one tick per reading
    calls,    \* per thread: the tool call it runs and its position
    nCalls    \* number of tool calls started

trackerVars == <<store, created, clock, calls, nCalls>>

VARIABLES
    deltaIn,   \* total_profitability of the snapshot and of the baseline compared
    deltaOut   \* the ProfitabilityDelta computed from them, once computed

deltaVars == <<deltaIn, deltaOut>>

VARIABLES
    taskIn,    \* get_staffer_task_assignments: the staffer's rows and the arguments
    taskOut    \* its return value, once it has run

taskVars == <<taskIn, taskOut>>

VARIABLES
    availIn,   \* find_available_staffers: the tables it reads and the arguments
    availOut   \* its return value, once it has run

availVars == <<availIn, availOut>>

VARIABLES
    reqIn,        \* the time-off request, the handler it goes to, what the agent finds
    req,          \* the handler's position and its result
    assignments,  \* the rows of staffer_assignments
    executor,     \* the executor's tool call: its position and its return value
    project_tasks,  \* the row of project_tasks the executor's tools update
    projects,     \* the row of projects the executor's tools update
    pm_agent      \* the calls of the synchronous strands tools and the last return

reqVars == <<reqIn, req, assignments, executor, project_tasks, projects, pm_agent>>

calcVars == <<deltaVars, taskVars, availVars, reqVars>>

vars == <<busVars, trackerVars, calcVars>>

(***************************************************************************)
(* Python list helpers                                                     *)
(***************************************************************************)
InList(h, s) == \E i \in 1..Len(s) : s[i] = h

Count(x, s) == Cardinality({i \in 1..Len(s) : s[i] = x})

FirstIndex(h, s) == CHOOSE i \in 1..Len(s) : s[i] = h /\ \A j \in 1..(i-1) : s[j] # h

\* list.remove(h): drops the first occurrence
ListRemove(h, s) ==
    LET k == FirstIndex(h, s)
    IN [i \in 1..(Len(s)-1) |-> IF i < k THEN s[i] ELSE s[i+1]]

(***************************************************************************)
(* EventBus                                                                *)
(***************************************************************************)
\* a faulty __new__ that allocates a fresh object (and list) on every call
NewAlways ==
    /\ nInst < MaxInstances
    /\ nInst' = nInst + 1
    /\ instance' = nInst + 1
    /\ subscribers' = <<>>
    /\ refs' = refs \cup {nInst + 1}

\* EventBus.__new__: allocate on first use only, then hand out the same object
New ==
    IF instance = 0
    THEN /\ nInst' = nInst + 1
         /\ instance' = nInst + 1
         /\ subscribers' = <<>>
         /\ refs' = refs \cup {nInst + 1}
    ELSE /\ refs' = refs \cup {instance}
         /\ UNCHANGED <<nInst, instance, subscribers>>

\* EventBus(): event_bus = EventBus() at import, or any later construction
Construct ==
    /\ New
    /\ rebuilt' = (rebuilt \/ (instance # 0 /\ subscribers # <<>>))
    /\ UNCHANGED <<prod, nextEv, queue, conn, nSub, log, present, stable, raisedAt>>
    /\ UNCHANGED <<trackerVars, calcVars>>

\* subscribe(callback): append, no duplicate check
subscribe(h, s) == Append(s, h)

\* a faulty unsubscribe that leaves the list alone
unsubscribeNoop(h, s) == s

\* unsubscribe(callback): remove the first occurrence when present
unsubscribe(h, s) == IF InList(h, s) THEN ListRemove(h, s) ELSE s

\* a bounded queue: put() waits while the queue holds an item
PutSuspendsBounded(h, slow, qs) ==
    \/ h \in GenericHandlers /\ h \in slow
    \/ h \in AllConns /\ Len(qs[h]) >= 1

\* whether `await subscriber(event)` yields to the event loop: a generic
\* callback may; handle_event awaits put() on an unbounded asyncio.Queue,
\* which never waits
HandlerSuspends(h, slow, qs) ==
    h \in GenericHandlers /\ h \in slow

\* the body of emit from list index i on, run until the first await that
\* yields or until the loop ends: `for subscriber in self.subscribers` reads
\* the live list by index on every iteration
\* a handler in bad raises when it is invoked: emit has no try, so the
\* exception ends the loop and leaves emit
RECURSIVE Deliver(_, _, _, _, _, _)
Deliver(e, i, lg, qs, slow, bad) ==
    IF i >= Len(subscribers)
    THEN [pc |-> "idle", idx |-> 0, at |-> "none", log |-> lg, queue |-> qs]
    ELSE LET h == subscribers[i + 1]
             lg2 == [lg EXCEPT ![h] = Append(@, e)]
             qs2 == IF h \in AllConns THEN [qs EXCEPT ![h] = Append(@, e)] ELSE qs
         IN IF h \in bad
            THEN [pc |-> "raised", idx |-> i + 1, at |-> h, log |-> lg2, queue |-> qs]
            ELSE IF HandlerSuspends(h, slow, qs)
            THEN [pc |-> "suspended", idx |-> i + 1, at |-> h, log |-> lg2, queue |-> qs]
            ELSE Deliver(e, i + 1, lg2, qs2, slow, bad)

HandlerSet(s) == {s[i] : i \in 1..Len(s)}

\* the producer's coroutine frame after a run of emit: kept while emit is
\* suspended, gone once emit returned or was left by an exception
Frame(r, e) ==
    IF r.pc = "suspended" THEN [pc |-> "suspended", ev |-> e, idx |-> r.idx, at |-> r.at]
    ELSE [pc |-> "idle", ev |-> 0, idx |-> 0, at |-> "none"]

\* how a run of emit(e) ended, recorded when an exception left it
RaisedAfter(r, e) ==
    IF r.pc = "raised" THEN [raisedAt EXCEPT ![e] = r.at] ELSE raisedAt

\* the frames of the emit calls that handle_resource_management and the
\* executor's tool are waiting in: they resume together with their caller
Awaited ==
    (IF req.pc = "emitting" THEN {req.ev} ELSE {})
        \cup (IF executor.pc = "emitting" THEN {executor.ev} ELSE {})

\* the frame of the suspended emit of event e
FrameOf(e) == CHOOSE p \in Producers : prod[p].pc = "suspended" /\ prod[p].ev = e

\* emit(event) as it acts on the bus: the handlers in bad raise when invoked,
\* those in slow yield to the event loop
BusEmit(p, bad, slow) ==
    /\ instance # 0
    /\ prod[p].pc = "idle"
    \* producers are interchangeable: the lowest idle one stands for any of them
    /\ \A q \in Producers : prod[q].pc = "idle" => p <= q
    /\ LET r == Deliver(nextEv, 0, log, queue, slow, bad)
       IN /\ prod' = [prod EXCEPT ![p] = Frame(r, nextEv)]
          /\ log' = r.log
          /\ queue' = r.queue
          /\ raisedAt' = RaisedAfter(r, nextEv)
    /\ present' = [present EXCEPT ![nextEv] = HandlerSet(subscribers)]
    /\ stable' = [stable EXCEPT ![nextEv] = HandlerSet(subscribers)]
    /\ nextEv' = nextEv + 1
    /\ UNCHANGED <<instance, nInst, refs, rebuilt, subscribers, conn, nSub>>

\* a suspended emit goes on: the handler it is suspended in finishes, or
\* raises after its own await (fails); the loop then runs on as in BusEmit
BusResume(p, bad, slow, fails) ==
    /\ prod[p].pc = "suspended"
    /\ LET e == prod[p].ev
           r == IF fails
                THEN [pc |-> "raised", idx |-> prod[p].idx, at |-> prod[p].at,
                      log |-> log, queue |-> queue]
                ELSE Deliver(e, prod[p].idx, log, queue, slow, bad)
       IN /\ prod' = [prod EXCEPT ![p] = Frame(r, e)]
          /\ log' = r.log
          /\ queue' = r.queue
          /\ raisedAt' = RaisedAfter(r, e)
    /\ UNCHANGED <<instance, nInst, refs, rebuilt, subscribers, nextEv, conn, nSub,
                   present, stable>>

\* the task awaiting a suspended emit is cancelled: CancelledError is thrown
\* into the handler and leaves emit, the remaining subscribers are skipped
BusCancel(p) ==
    /\ prod[p].pc = "suspended"
    /\ prod' = [prod EXCEPT ![p] = [pc |-> "idle", ev |-> 0, idx |-> 0, at |-> "none"]]
    /\ raisedAt' = [raisedAt EXCEPT ![prod[p].ev] = "cancelled"]
    /\ UNCHANGED <<instance, nInst, refs, rebuilt, subscribers, nextEv, conn, nSub,
                   present, stable, log, queue>>

\* a producer calls `await event_bus.emit(event)`; the handlers in bad raise
EmitWith(p, bad) ==
    /\ nextEv <= MaxEvents
    /\ \E slow \in SUBSET GenericHandlers : BusEmit(p, bad, slow)
    /\ UNCHANGED <<trackerVars, calcVars>>

\* a producer calls emit and no handler raises
Emit(p) == EmitWith(p, {})

\* a producer calls emit and some generic handlers raise when invoked
EmitRaising(p) ==
    \E bad \in (SUBSET GenericHandlers) \ {{}} : EmitWith(p, bad)

\* the handler a producer is suspended in finishes and the loop goes on
Resume(p) ==
    /\ prod[p].pc = "suspended"
    /\ prod[p].ev \notin Awaited
    /\ \E slow \in SUBSET GenericHandlers : BusResume(p, {}, slow, FALSE)
    /\ UNCHANGED <<trackerVars, calcVars>>

\* the handler a producer is suspended in raises after its await, or it
\* finishes and a later handler raises: the exception leaves emit
ResumeRaising(p) ==
    /\ prod[p].pc = "suspended"
    /\ prod[p].ev \notin Awaited
    /\ \E slow \in SUBSET GenericHandlers, bad \in SUBSET GenericHandlers,
          fails \in BOOLEAN :
          /\ BusResume(p, bad, slow, fails)
          /\ raisedAt'[prod[p].ev] # "none"
    /\ UNCHANGED <<trackerVars, calcVars>>

\* the task of a producer is cancelled while its emit is suspended
CancelEmit(p) ==
    /\ prod[p].pc = "suspended"
    /\ prod[p].ev \notin Awaited
    /\ BusCancel(p)
    /\ UNCHANGED <<trackerVars, calcVars>>

\* the instant at which the class body of BusinessEvent runs (import of
\* events/bus.py), earlier than the construction of any event
ImportInstant == 0

\* the instant at which event e is constructed: events are numbered in the
\* order of their construction and each is constructed later than the last
created_at(e) == e

\* BusinessEvent.timestamp of event e: no caller passes timestamp=, so the
\* field holds the dataclass default, datetime.now() evaluated once when the
\* class body ran
timestamp(e) == ImportInstant

\* events whose emit has been called and has not returned
InFlight == {prod[p].ev : p \in {q \in Producers : prod[q].pc = "suspended"}}

\* events whose emit was left by an exception
Raised == {e \in EmitIds : raisedAt[e] # "none"}

\* events whose emit has returned
Finished == {e \in Events : e < nextEv /\ e \notin InFlight /\ e \notin Raised}

\* history: a handler that left the list is no longer subscribed throughout
StableAfter(s2) ==
    [e \in EmitIds |-> IF e \in InFlight THEN stable[e] \cap HandlerSet(s2) ELSE stable[e]]

\* some party calls event_bus.subscribe(h) with a generic callback
Subscribe(h) ==
    /\ instance # 0
    /\ nSub < MaxSubscribes
    /\ nSub' = nSub + 1
    /\ subscribers' = subscribe(h, subscribers)
    /\ UNCHANGED <<instance, nInst, refs, rebuilt, prod, nextEv, queue, conn,
                   log, present, stable, raisedAt>>
    /\ UNCHANGED <<trackerVars, calcVars>>

\* some party calls event_bus.unsubscribe(h) with a generic callback
Unsubscribe(h) ==
    /\ instance # 0
    /\ subscribers' = unsubscribe(h, subscribers)
    /\ stable' = StableAfter(subscribers')
    /\ UNCHANGED <<instance, nInst, refs, rebuilt, prod, nextEv, queue, conn, nSub,
                   log, present, raisedAt>>
    /\ UNCHANGED <<trackerVars, calcVars>>

(***************************************************************************)
(* SSE endpoint: subscribe_to_events.event_generator                       *)
(***************************************************************************)
\* first iteration of the generator: create the queue, subscribe handle_event,
\* wait in queue.get()
Connect(c) ==
    /\ instance # 0
    /\ conn[c] = "new"
    /\ queue' = [queue EXCEPT ![c] = <<>>]
    /\ subscribers' = subscribe(c, subscribers)
    /\ conn' = [conn EXCEPT ![c] = "streaming"]
    /\ UNCHANGED <<instance, nInst, refs, rebuilt, prod, nextEv, nSub, log, present, stable, raisedAt>>
    /\ UNCHANGED <<trackerVars, calcVars>>

\* queue.get() returns the oldest event and the generator yields it to the client
Stream(c) ==
    /\ conn[c] = "streaming"
    /\ queue[c] # <<>>
    /\ queue' = [queue EXCEPT ![c] = Tail(@)]
    /\ UNCHANGED <<instance, nInst, refs, rebuilt, subscribers, prod, nextEv, conn, nSub,
                   log, present, stable, raisedAt>>
    /\ UNCHANGED <<trackerVars, calcVars>>

\* the client goes away: the server cancels or closes the generator
Disconnect(c) ==
    /\ conn[c] = "streaming"
    /\ conn' = [conn EXCEPT ![c] = "cancelling"]
    /\ UNCHANGED <<instance, nInst, refs, rebuilt, subscribers, prod, nextEv, queue, nSub,
                   log, present, stable, raisedAt>>
    /\ UNCHANGED <<trackerVars, calcVars>>

\* CancelledError / GeneratorExit reaches the generator: the finally block runs
Finalize(c) ==
    /\ conn[c] = "cancelling"
    /\ subscribers' = unsubscribe(c, subscribers)
    /\ stable' = StableAfter(subscribers')
    /\ conn' = [conn EXCEPT ![c] = "closed"]
    /\ queue' = [queue EXCEPT ![c] = <<>>]
    /\ UNCHANGED <<instance, nInst, refs, rebuilt, prod, nextEv, nSub, log, present, raisedAt>>
    /\ UNCHANGED <<trackerVars, calcVars>>

BusInit ==
    /\ instance = 0
    /\ nInst = 0
    /\ refs = {}
    /\ subscribers = <<>>
    /\ prod = [p \in Producers |-> [pc |-> "idle", ev |-> 0, idx |-> 0, at |-> "none"]]
    /\ nextEv = 1
    /\ queue = [c \in AllConns |-> <<>>]
    /\ conn = [c \in AllConns |-> "new"]
    /\ nSub = 0
    /\ rebuilt = FALSE
    /\ log = [h \in Handlers |-> <<>>]
    /\ present = [e \in EmitIds |-> {}]
    /\ stable = [e \in EmitIds |-> {}]
    /\ raisedAt = [e \in EmitIds |-> "none"]

BusNext ==
    \/ Construct
    \/ \E p \in Producers : Emit(p)
    \/ \E p \in Producers : Resume(p)
    \/ \E h \in GenericHandlers : Subscribe(h)
    \/ \E h \in GenericHandlers : Unsubscribe(h)
    \/ \E c \in Conns : Connect(c)
    \/ \E c \in Conns : Stream(c)
    \/ \E c \in Conns : Disconnect(c)
    \/ \E c \in Conns : Finalize(c)

\* the bus with a second SSE connection and with handlers that raise
BusWideNext ==
    \/ BusNext
    \/ \E p \in Producers : EmitRaising(p)
    \/ \E p \in Producers : ResumeRaising(p)
    \/ \E p \in Producers : CancelEmit(p)
    \/ \E c \in LateConns : Connect(c)
    \/ \E c \in LateConns : Stream(c)
    \/ \E c \in LateConns : Disconnect(c)
    \/ \E c \in LateConns : Finalize(c)

(***************************************************************************)
(* Profitability delta arithmetic                                          *)
(* (ProfitabilityService.calculate_profitability_change_since_baseline)    *)
(***************************************************************************)
\* largest magnitude of the small profitability amounts tried
MaxAmount == 3

\* total_profitability values: small amounts of either sign and the figures
\* of the documented decline from 100000 to 97000
Amounts == (-MaxAmount..MaxAmount) \cup {97000, 100000}

Abs(x) == IF x < 0 THEN -x ELSE x

RECURSIVE Gcd(_, _)
Gcd(a, b) == IF b = 0 THEN a ELSE Gcd(b, a % b)

\* change_percentage = None
NoPercentage == [none |-> TRUE, num |-> 0, den |-> 1]

\* the float (n / d) * 100, d # 0, kept as the exact fraction num/den in
\* lowest terms with den > 0
Percentage(n, d) ==
    LET g == Gcd(Abs(n * 100), Abs(d))
        s == IF d < 0 THEN -1 ELSE 1
    IN [none |-> FALSE, num |-> (s * n * 100) \div g, den |-> Abs(d) \div g]

\* a faulty percentage that divides by the baseline itself, not its magnitude
change_percentageSigned(change_amount, baseline_profitability) ==
    IF baseline_profitability # 0
    THEN Percentage(change_amount, baseline_profitability)
    ELSE NoPercentage

\* lines 288-290: None unless the baseline is non-zero
change_percentage(change_amount, baseline_profitability) ==
    IF baseline_profitability # 0
    THEN Percentage(change_amount, Abs(baseline_profitability))
    ELSE NoPercentage

\* a faulty test that counts no change as an improvement
is_improvementOrEqual(change_amount) == change_amount >= 0

\* line 292
is_improvement(change_amount) == change_amount > 0

\* lines 283-300: the ProfitabilityDelta of a snapshot against a baseline
ProfitabilityDelta(current_profitability, baseline_profitability) ==
    LET change_amount == current_profitability - baseline_profitability
    IN [current_profitability |-> current_profitability,
        baseline_profitability |-> baseline_profitability,
        change_amount |-> change_amount,
        change_percentage |-> change_percentage(change_amount, baseline_profitability),
        is_improvement |-> is_improvement(change_amount)]

\* the delta of the two amounts is computed
CalcDelta ==
    /\ deltaOut = <<>>
    /\ deltaOut' = <<ProfitabilityDelta(deltaIn.current, deltaIn.baseline)>>
    /\ UNCHANGED deltaIn
    /\ UNCHANGED <<busVars, trackerVars, taskVars, availVars, reqVars>>

\* any pair of stored amounts, no delta computed yet
DeltaInit ==
    /\ deltaIn \in [current : Amounts, baseline : Amounts]
    /\ deltaOut = <<>>

\* no delta arithmetic going on
DeltaIdle ==
    /\ deltaIn = [current |-> 0, baseline |-> 0]
    /\ deltaOut = <<>>

DeltaNext == CalcDelta

(***************************************************************************)
(* Time-off impact: get_staffer_task_assignments                           *)
(* (backend/app/ai/agents/resource_management.py)                          *)
(***************************************************************************)
\* latest instant tried; instants count half days from midnight of day 0
MaxInstant == 3
\* number of task rows the staffer_assignments query returns
MaxTasks == 1

\* instants per calendar day
TicksPerDay == 2

Instants == 0..MaxInstant

\* a date column or argument: absent (None or ""), a string fromisoformat
\* rejects, or an ISO string naming an instant
NoDate == [kind |-> "none", at |-> 0]
BadDate == [kind |-> "bad", at |-> 0]
IsoDate(i) == [kind |-> "ok", at |-> i]

\* project_task_start_date / project_task_due_date as the query returns them
TaskDates == {NoDate, BadDate} \cup {IsoDate(i) : i \in Instants}
\* start_date / end_date as the caller passes them
WindowDates == {BadDate} \cup {IsoDate(i) : i \in Instants}

TaskRows == [start : TaskDates, due : TaskDates]

\* sequences over S of length at most n
RECURSIVE SeqsUpTo(_, _)
SeqsUpTo(S, n) ==
    IF n = 0 THEN {<<>>}
    ELSE LET shorter == SeqsUpTo(S, n - 1)
         IN shorter \cup {Append(q, x) : q \in {r \in shorter : Len(r) = n - 1}, x \in S}

\* datetime.fromisoformat(...).date(): the calendar day of the instant
date(i) == i \div TicksPerDay

\* datetime.fromisoformat(...) returns rather than raises ValueError
Parses(f) == f.kind = "ok"

\* a faulty test on open intervals
overlapsOpen(aStart, aEnd, bStart, bEnd) == ~(aEnd <= bStart \/ aStart >= bEnd)

\* lines 265-268 (and 411-414): not (a_end < b_start or a_start > b_end)
overlaps(aStart, aEnd, bStart, bEnd) == ~(aEnd < bStart \/ aStart > bEnd)

\* a faulty default that takes a task without usable dates as unaffected
task_overlapsSkipUndated(task, start_date, end_date) ==
    /\ task.start.kind # "none" /\ task.due.kind # "none"
    /\ Parses(task.start) /\ Parses(task.due) /\ Parses(start_date) /\ Parses(end_date)
    /\ overlaps(date(task.start.at), date(task.due.at), date(start_date.at), date(end_date.at))

\* lines 208-275: overlaps starts True and is recomputed only when both task
\* dates are truthy and all four dates parse (a ValueError is caught and
\* leaves it True)
task_overlaps(task, start_date, end_date) ==
    IF task.start.kind # "none" /\ task.due.kind # "none"
    THEN IF Parses(task.start) /\ Parses(task.due) /\ Parses(start_date) /\ Parses(end_date)
         THEN overlaps(date(task.start.at), date(task.due.at),
                       date(start_date.at), date(end_date.at))
         ELSE TRUE
    ELSE TRUE

\* the indices, in order, of the rows appended to assignments
RECURSIVE Affected(_, _, _, _)
Affected(rows, i, start_date, end_date) ==
    IF i > Len(rows) THEN <<>>
    ELSE LET rest == Affected(rows, i + 1, start_date, end_date)
         IN IF task_overlaps(rows[i], start_date, end_date) THEN <<i>> \o rest ELSE rest

\* get_staffer_task_assignments; ok is FALSE when the client is missing or
\* the query raises: the function then returns []
get_staffer_task_assignments(rows, start_date, end_date, ok) ==
    IF ok THEN Affected(rows, 1, start_date, end_date) ELSE <<>>

\* the tool is called
GetAssignments ==
    /\ ~taskOut.returned
    /\ taskOut' = [returned |-> TRUE,
                   assignments |-> get_staffer_task_assignments(
                       taskIn.rows, taskIn.start_date, taskIn.end_date, taskIn.ok)]
    /\ UNCHANGED taskIn
    /\ UNCHANGED <<busVars, trackerVars, deltaVars, availVars, reqVars>>

\* any rows of the staffer and any window; the tool has not run
TaskInit ==
    /\ taskIn \in [rows : SeqsUpTo(TaskRows, MaxTasks), start_date : WindowDates,
                   end_date : WindowDates, ok : BOOLEAN]
    /\ taskOut = [returned |-> FALSE, assignments |-> <<>>]

\* the tool is not in use
TaskIdle ==
    /\ taskIn = [rows |-> <<>>, start_date |-> BadDate, end_date |-> BadDate, ok |-> FALSE]
    /\ taskOut = [returned |-> FALSE, assignments |-> <<>>]

TaskNext == GetAssignments

(***************************************************************************)
(* Availability filter: find_available_staffers                            *)
(* (backend/app/ai/agents/resource_management.py)                          *)
(***************************************************************************)
\* number of staffer_time_off rows per staffer
MaxPto == 1
\* number of rows of the staffers table when the ranking is explored
MaxStaffers == 3

\* ids of the rows of the staffers table, in the order the query returns them
StafferIdAt == <<"s1", "s2", "s3", "s4">>
StafferIds == {"s1"}
\* values of exclude_staffer_id: a staffer of the table or someone else
ExcludeIds == {"s1", "s2"}
ProjectIds == {"p1", "p2"}

\* seniorities(seniority_level) of a staffer: None (no seniority row) or a level
NoSeniority == -1
Seniorities == {NoSeniority, 0, 1, 2}
\* the capacity column
Capacities == {1, 2}

\* time_off_start_datetime / time_off_end_datetime of a staffer_time_off row:
\* both datetimes readable, or one of them missing or unreadable
PtoRows ==
    [start : {IsoDate(i) : i \in Instants}, end : {IsoDate(i) : i \in Instants}]
    \cup [start : {NoDate, BadDate}, end : {IsoDate(0)}]
    \cup [start : {IsoDate(0)}, end : {NoDate, BadDate}]

\* what the tables hold about one staffer: the row of staffers, the time-off
\* rows and the projects of the teams the staffer is a member of
StafferRow(id, pto, teams, seniority, capacity) ==
    [id |-> id, pto |-> pto, teams |-> teams,
     seniority |-> seniority, capacity |-> capacity]

\* project_ids: None, [] or a list of project ids
NoFilter == [given |-> FALSE, ids |-> {}]
ProjectFilters == {NoFilter} \cup {[given |-> TRUE, ids |-> I] : I \in {{}, {"p1"}}}

\* a faulty test that sees a conflict only when a record starts in the window
has_conflictStartInside(pto, check_start, check_end) ==
    \E k \in 1..Len(pto) :
        /\ pto[k].start.kind # "none" /\ pto[k].end.kind # "none"
        /\ Parses(pto[k].start) /\ Parses(pto[k].end)
        /\ check_start <= date(pto[k].start.at) /\ date(pto[k].start.at) <= check_end

\* lines 383-422: a record counts only when both datetimes are truthy and
\* parse (otherwise it is skipped) and their dates overlap the window's
has_conflict(pto, check_start, check_end) ==
    \E k \in 1..Len(pto) :
        /\ pto[k].start.kind # "none" /\ pto[k].end.kind # "none"
        /\ Parses(pto[k].start) /\ Parses(pto[k].end)
        /\ overlaps(date(pto[k].start.at), date(pto[k].end.at), check_start, check_end)

\* lines 427-437: True unless project_ids is a non-empty list, then whether
\* the staffer has a membership in a team of one of these projects
is_on_project_team(teams, project_ids) ==
    IF project_ids.given /\ project_ids.ids # {}
    THEN teams \cap project_ids.ids # {}
    ELSE TRUE

\* lines 441-454: the StafferInfo built from a row of staffers
StafferInfo(row) ==
    [staffer_id |-> row.id, seniority_level |-> row.seniority,
     capacity |-> row.capacity]

\* lines 370-454: the loop over staffers_result.data, which the query has
\* stripped of exclude_staffer_id (line 337); rows 1..i of the table
RECURSIVE available_staffers(_, _, _, _, _, _)
available_staffers(table, i, exclude_staffer_id, check_start, check_end, project_ids) ==
    IF i = 0 THEN <<>>
    ELSE LET before == available_staffers(table, i - 1, exclude_staffer_id,
                                          check_start, check_end, project_ids)
         IN IF /\ table[i].id # exclude_staffer_id
               /\ ~has_conflict(table[i].pto, check_start, check_end)
               /\ is_on_project_team(table[i].teams, project_ids)
            THEN Append(before, StafferInfo(table[i]))
            ELSE before

\* line 459: key=lambda x: (x.seniority_level or 0, x.capacity)
sort_key(x) ==
    <<IF x.seniority_level = NoSeniority \/ x.seniority_level = 0
      THEN 0 ELSE x.seniority_level,
      x.capacity>>

\* comparison of two keys (tuples compare lexicographically)
KeyLess(a, b) == a[1] < b[1] \/ (a[1] = b[1] /\ a[2] < b[2])

\* a faulty insertion that puts x before the elements with an equal key
InsertDescendingUnstable(s, x) ==
    LET lower == {j \in 1..Len(s) : ~KeyLess(sort_key(x), sort_key(s[j]))}
    IN IF lower = {} THEN Append(s, x)
       ELSE LET j == CHOOSE k \in lower : \A m \in lower : k <= m
            IN SubSeq(s, 1, j - 1) \o <<x>> \o SubSeq(s, j, Len(s))

\* x placed in a list sorted in descending key order, after every element
\* whose key is greater than or equal to its own
InsertDescending(s, x) ==
    LET lower == {j \in 1..Len(s) : KeyLess(sort_key(s[j]), sort_key(x))}
    IN IF lower = {} THEN Append(s, x)
       ELSE LET j == CHOOSE k \in lower : \A m \in lower : k <= m
            IN SubSeq(s, 1, j - 1) \o <<x>> \o SubSeq(s, j, Len(s))

\* lines 457-460: list.sort(key=..., reverse=True) is stable: descending
\* keys, elements with equal keys in their original order; the first n
\* elements of the list, sorted
RECURSIVE sort(_, _)
sort(list, n) ==
    IF n = 0 THEN <<>> ELSE InsertDescending(sort(list, n - 1), list[n])

\* find_available_staffers: the list of StafferInfo returned; ok is FALSE
\* when the client is missing or a query raises: the function then returns []
find_available_staffers(table, exclude_staffer_id, start_date, end_date, project_ids, ok) ==
    IF ~ok THEN <<>>
    ELSE IF ~Parses(start_date) \/ ~Parses(end_date) THEN <<>>
    ELSE LET found == available_staffers(table, Len(table), exclude_staffer_id,
                                         date(start_date.at), date(end_date.at),
                                         project_ids)
         IN sort(found, Len(found))

\* the tool is called
FindAvailable ==
    /\ ~availOut.returned
    /\ availOut' = [returned |-> TRUE,
                    staffers |-> find_available_staffers(
                        availIn.table, availIn.exclude, availIn.start_date,
                        availIn.end_date, availIn.project_ids, availIn.ok)]
    /\ UNCHANGED availIn
    /\ UNCHANGED <<busVars, trackerVars, deltaVars, taskVars, reqVars>>

\* the teams of a staffer with the project filter of a call: no team under
\* each filter, a team of the project asked for and a team of another one
Memberships ==
    {<<{}, f>> : f \in ProjectFilters}
    \cup {<<t, [given |-> TRUE, ids |-> {"p1"}]>> : t \in {{"p1"}, {"p2"}}}

\* calls that reach the loop: one staffer with up to n time-off rows and any
\* team, any window that parses, any project filter
LoopInputs(n) ==
    {[table |-> <<StafferRow("s1", p, m[1], 1, 1)>>, exclude |-> x,
      start_date |-> IsoDate(s), end_date |-> IsoDate(e),
      project_ids |-> m[2], ok |-> TRUE] :
        p \in SeqsUpTo(PtoRows, n), m \in Memberships,
        x \in ExcludeIds, s \in Instants, e \in Instants}

\* calls that return before the loop or leave it by an exception: a window
\* that does not parse, a missing client or a query that raises
EarlyInputs ==
    {[table |-> <<StafferRow("s1", p, {}, 1, 1)>>, exclude |-> "s2",
      start_date |-> w[1], end_date |-> w[2],
      project_ids |-> NoFilter, ok |-> k] :
        p \in SeqsUpTo(PtoRows, 1),
        w \in {<<BadDate, IsoDate(0)>>, <<IsoDate(0), BadDate>>,
               <<IsoDate(0), IsoDate(0)>>},
        k \in BOOLEAN}

\* calls about a project with a team: two staffers other than the one on
\* leave, in either order of their rows; one is the only member of a team of
\* the project asked for and has up to n time-off rows, the other is free and
\* in a team of another project; any window that parses
TeamInputs(n) ==
    {[table |-> IF first
                THEN <<StafferRow("s1", p, {"p1"}, 1, 1), StafferRow("s3", <<>>, {"p2"}, 1, 1)>>
                ELSE <<StafferRow("s3", <<>>, {"p2"}, 1, 1), StafferRow("s1", p, {"p1"}, 1, 1)>>,
      exclude |-> "s2",
      start_date |-> IsoDate(s), end_date |-> IsoDate(e),
      project_ids |-> [given |-> TRUE, ids |-> {"p1"}], ok |-> TRUE] :
        p \in SeqsUpTo(PtoRows, n), first \in BOOLEAN,
        s \in Instants, e \in Instants}

\* any tables and arguments; the tool has not run
AvailInit ==
    /\ \/ availIn \in LoopInputs(MaxPto)
       \/ availIn \in EarlyInputs
       \/ availIn \in TeamInputs(MaxPto)
    /\ availOut = [returned |-> FALSE, staffers |-> <<>>]

\* tables of several staffers who differ in seniority and capacity, each with
\* no time off or with one record that covers the window
RankRows == [pto : {<<>>, <<[start |-> IsoDate(0), end |-> IsoDate(0)]>>},
             seniority : Seniorities, capacity : Capacities]

\* the tables of up to n staffers
RankTables(n) ==
    {[i \in 1..Len(q) |->
        StafferRow(StafferIdAt[i], q[i].pto, {}, q[i].seniority, q[i].capacity)] :
        q \in SeqsUpTo(RankRows, n)}

\* the tool is about to rank the staffers of such a table
RankInit ==
    /\ availIn \in [table : RankTables(MaxStaffers), exclude : {StafferIdAt[1], "s0"},
                    start_date : {IsoDate(0)}, end_date : {IsoDate(0)},
                    project_ids : {NoFilter}, ok : {TRUE}]
    /\ availOut = [returned |-> FALSE, staffers |-> <<>>]

\* the tool is not in use
AvailIdle ==
    /\ availIn = [table |-> <<>>,
                  exclude |-> "s2", start_date |-> BadDate, end_date |-> BadDate,
                  project_ids |-> NoFilter, ok |-> FALSE]
    /\ availOut = [returned |-> FALSE, staffers |-> <<>>]

AvailNext == FindAvailable

(***************************************************************************)
(* Time-off requests: handle_resource_management and the agent's tools     *)
(* (backend/app/ai/agents/resource_management.py), with the executor's     *)
(* tools that write assignments (backend/app/ai/agents/project_management.py) *)
(***************************************************************************)
\* number of the staffer's assignments that overlap the window
MaxAffected == 1
\* number of rows of staffer_assignments
MaxRows == 2
\* number of tool calls the agent makes in one run
MaxToolCalls == 2

AffectedTasks == 1..MaxAffected
\* NewTaskAssignment: the task and the staffer proposed for it
NewTaskAssignments == [task_id : AffectedTasks, new_staffer_id : {"s1"}]
AssignmentRows == [staffer_id : {"s2"}, project_task_id : AffectedTasks]

\* a tool list that also hands the two writing tools to the agent
resource_management_toolsWriting ==
    {"find_staffer_by_name", "get_staffer_task_assignments",
     "get_project_ids_from_tasks", "find_available_staffers",
     "create_new_task_assignment", "remove_task_assignment"}

\* tools=[...] of resource_management_agent
resource_management_tools ==
    {"find_staffer_by_name", "get_staffer_task_assignments",
     "get_project_ids_from_tasks", "find_available_staffers"}

\* tools=[...] of project_management_agent
project_management_tools ==
    {"create_new_task_assignment", "remove_task_assignment", "get_project_details",
     "get_task_by_id", "update_task_details", "update_task_status",
     "update_project_status_tool", "update_project_due_date_tool"}

\* the tools of project_management_agent that await event_bus.emit after a
\* successful write
emitting_tools == project_management_tools \ {"get_project_details", "get_task_by_id"}

\* the tools whose emit sits inside try/except Exception: update_task_details
\* (lines 245-291) has no try
guarded_tools == emitting_tools \ {"update_task_details"}

\* .delete().eq("staffer_id", ...).eq("project_task_id", ...): the rows left
RECURSIVE delete(_, _)
delete(rows, row) ==
    IF rows = <<>> THEN <<>>
    ELSE IF Head(rows) = row THEN delete(Tail(rows), row)
    ELSE <<Head(rows)>> \o delete(Tail(rows), row)

\* staffer_assignments after a call of a tool whose queries succeed (ok) or
\* raise: create_new_task_assignment inserts a row, remove_task_assignment
\* deletes the matching rows, every other tool only selects
tool_call(tool, rows, row, ok) ==
    IF ~ok THEN rows
    ELSE IF tool = "create_new_task_assignment" THEN Append(rows, row)
    ELSE IF tool = "remove_task_assignment" THEN delete(rows, row)
    ELSE rows

\* ResourceManagementResponse; a warning names a task or reports an error
ResourceManagementResponse(success, affected_tasks_count, new_assignments, warnings) ==
    [success |-> success, affected_tasks_count |-> affected_tasks_count,
     new_assignments |-> new_assignments, warnings |-> warnings]

TaskWarning(t) == [kind |-> "task", task |-> t]
ErrorWarning == [kind |-> "error", task |-> 0]

\* lines 620-627: the response after the agent has run
response == ResourceManagementResponse(TRUE, 0, {}, {})
\* lines 651-657: the response of the except block
error_response == ResourceManagementResponse(FALSE, 0, {}, {ErrorWarning})

\* values the executor's agent passes as dates: update_task_details stores
\* the string as given
DateArgs == {IsoDate(0), BadDate}
\* an optional argument that was not passed
Unset == [kind |-> "unset", at |-> 0]
\* two of the TaskStatus values and two of the ProjectStatus values
TaskStatuses == {"not_started", "blocked"}
ProjectStatuses == {"active", "on_hold"}

\* the arguments of one call of an executor tool: the assignment row, the
\* dates and the status passed, whether a name or description is passed; a
\* tool reads only its own parameters
ToolArgs(tool) ==
    [row : IF tool \in {"create_new_task_assignment", "remove_task_assignment"}
           THEN AssignmentRows ELSE {[staffer_id |-> "s2", project_task_id |-> 1]},
     start_date : IF tool = "update_task_details" THEN DateArgs \cup {Unset} ELSE {Unset},
     due_date : IF tool \in {"update_task_details", "update_project_due_date_tool",
                              "update_project_record"}
                THEN DateArgs \cup {Unset} ELSE {Unset},
     named : IF tool = "update_task_details" THEN BOOLEAN ELSE {FALSE},
     task_status : IF tool = "update_task_status" THEN TaskStatuses ELSE {"not_started"},
     project_status : IF tool = "update_project_status_tool" THEN ProjectStatuses
                      ELSE IF tool = "update_project_record"
                      THEN ProjectStatuses \cup {"unset"}
                      ELSE {"active"}]

\* update_task_details lines 265-276: nothing to update
NoUpdates(a) == a.start_date = Unset /\ a.due_date = Unset /\ ~a.named

\* whether the call writes: its queries succeed and find the row (ok) and
\* there is something to write
Writes(tool, a, ok) ==
    /\ ok
    /\ tool = "update_task_details" => ~NoUpdates(a)
    /\ tool = "update_project_due_date_tool" => a.due_date # BadDate

\* the tools that update or delete the row of project_tasks, and those of
\* the row of projects
task_tools == {"update_task_details", "update_task_status", "update_task_hours", "delete_task"}
project_tools ==
    {"update_project_status_tool", "update_project_due_date_tool",
     "update_project_record", "delete_project_tool"}

\* .update(...).eq(id) / .delete().eq(id) returns the row only when it is stored
RowStored(tool) ==
    /\ tool \in task_tools => project_tasks.stored
    /\ tool \in project_tools => projects.stored

\* the tools that go through ProjectTaskService.update_task /
\* ProjectService.update_project
updating_tools ==
    {"update_task_details", "update_task_status", "update_task_hours",
     "update_project_status_tool", "update_project_due_date_tool",
     "update_project_record"}

\* whether the call reports success: the row was written (w) and, for an
\* update, ProjectTask(**result.data[0]) / Project(**result.data[0]) could be
\* built from the row returned (built); a failure there is caught by the
\* service's except and answered with success=False after the write
Reports(tool, w, built) == w /\ (tool \in updating_tools => built)

\* ProjectTaskService.update_task on the row of project_tasks
update_task(tool, a, task) ==
    IF tool = "update_task_details"
    THEN [task EXCEPT
            !.start_date = IF a.start_date = Unset THEN @ ELSE a.start_date,
            !.due_date = IF a.due_date = Unset THEN @ ELSE a.due_date]
    ELSE IF tool = "update_task_status"
    THEN [task EXCEPT !.status = a.task_status]
    ELSE task

\* ProjectService.update_project on the row of projects; a due date that is
\* not passed or is "" clears the column
update_project(tool, a, project) ==
    IF tool = "update_project_status_tool"
    THEN [project EXCEPT !.status = a.project_status]
    ELSE IF tool = "update_project_due_date_tool"
    THEN [project EXCEPT !.due_date = IF a.due_date = Unset THEN NoDate ELSE a.due_date]
    ELSE IF tool = "update_project_record"
    THEN \* update_project_from_request: model_dump(exclude_none=True)
         [project EXCEPT
            !.status = IF a.project_status = "unset" THEN @ ELSE a.project_status,
            !.due_date = IF a.due_date = Unset THEN @ ELSE a.due_date]
    ELSE project

\* how the run of emit(e) stands in the state with frames pr and history ra
EmitOutcome(pr, ra, e) ==
    IF ra[e] # "none" THEN "raised"
    ELSE IF \E p \in Producers : pr[p].pc = "suspended" /\ pr[p].ev = e THEN "suspended"
    ELSE "returned"

\* handle_resource_management after its emit `at` (the start event, the
\* completion event or the ERROR event of the except block) of event e: the
\* emit is suspended, has returned, or an exception left it; the first two
\* emits are inside the try, the third leaves the function
AfterEmit(r, at, e, outcome) ==
    IF outcome = "suspended" THEN [r EXCEPT !.pc = "emitting", !.at = at, !.ev = e]
    ELSE IF outcome = "returned"
    THEN [r EXCEPT !.pc = IF at = "started" THEN "agent" ELSE "returned",
                   !.at = "none", !.ev = 0]
    ELSE [r EXCEPT !.pc = IF at = "except" THEN "raised" ELSE "except",
                   !.at = "none", !.ev = 0]

\* an executor tool after its emit: suspended, returned (the tool reports
\* success), or left by an exception, which the tool's except turns into a
\* failure report and update_task_details lets through
AfterToolEmit(x, tool, e, outcome) ==
    IF outcome = "suspended" THEN [x EXCEPT !.pc = "emitting", !.tool = tool, !.ev = e]
    ELSE [x EXCEPT !.pc = "idle", !.tool = "none", !.ev = 0,
          !.result = IF outcome = "returned" THEN "success"
                       ELSE IF tool \in guarded_tools THEN "failure" ELSE "raised"]

NoHandler ==
    [pc |-> "idle", result |-> error_response, calls |-> 0, ran |-> FALSE,
     at |-> "none", ev |-> 0]

NoTool == [pc |-> "idle", tool |-> "none", ev |-> 0, result |-> "none", calls |-> 0]

\* handle_resource_management is called: TimeOffRequest(**time_off_data)
\* (line 576) raises on data that does not validate
HandleRequest ==
    /\ reqIn.impl = "live"
    /\ req.pc = "idle"
    /\ req' = [req EXCEPT !.pc = IF reqIn.valid THEN "started" ELSE "except"]
    /\ UNCHANGED <<reqIn, assignments, executor, project_tasks, projects, pm_agent>>
    /\ UNCHANGED <<busVars, trackerVars, deltaVars, taskVars, availVars>>

\* lines 579-585: await event_bus.emit(...) invokes the subscribers; emit
\* lets a handler's exception through (bus.py 33-35)
EmitStarted ==
    /\ req.pc = "started"
    /\ \E p \in Producers, bad \in SUBSET GenericHandlers, slow \in SUBSET GenericHandlers :
          /\ BusEmit(p, bad, slow)
          /\ req' = AfterEmit(req, "started", nextEv, EmitOutcome(prod', raisedAt', nextEv))
    /\ UNCHANGED <<reqIn, assignments, executor, project_tasks, projects, pm_agent>>
    /\ UNCHANGED <<trackerVars, deltaVars, taskVars, availVars>>

\* lines 615-617: during Runner.run the agent calls one of its tools
AgentToolCall ==
    /\ req.pc = "agent"
    /\ req.calls < MaxToolCalls
    /\ \E tool \in resource_management_tools, row \in AssignmentRows, ok \in BOOLEAN :
          /\ Len(tool_call(tool, assignments, row, ok)) <= MaxRows
          /\ assignments' = tool_call(tool, assignments, row, ok)
    /\ req' = [req EXCEPT !.calls = @ + 1]
    /\ UNCHANGED <<reqIn, executor, project_tasks, projects, pm_agent>>
    /\ UNCHANGED <<busVars, trackerVars, deltaVars, taskVars, availVars>>

\* lines 615-617: during Runner.run the agent calls its tool
\* find_available_staffers, here with the arguments and tables of availIn;
\* the tool only selects
AgentFindsStaffers ==
    /\ req.pc = "agent"
    /\ req.calls < MaxToolCalls
    /\ ~availOut.returned
    /\ availOut' = [returned |-> TRUE,
                    staffers |-> find_available_staffers(
                        availIn.table, availIn.exclude, availIn.start_date,
                        availIn.end_date, availIn.project_ids, availIn.ok)]
    /\ req' = [req EXCEPT !.calls = @ + 1]
    /\ UNCHANGED <<availIn, reqIn, assignments, executor, project_tasks, projects, pm_agent>>
    /\ UNCHANGED <<busVars, trackerVars, deltaVars, taskVars>>

\* lines 615-627: Runner.run returns and the response is built, or it raises
RunAgent ==
    /\ req.pc = "agent"
    /\ \E ok \in BOOLEAN :
          req' = IF ok
                 THEN [req EXCEPT !.pc = "completed", !.result = response,
                                  !.ran = TRUE]
                 ELSE [req EXCEPT !.pc = "except"]
    /\ UNCHANGED <<reqIn, assignments, executor, project_tasks, projects, pm_agent>>
    /\ UNCHANGED <<busVars, trackerVars, deltaVars, taskVars, availVars>>

\* lines 630-648: no event per assignment (new_assignments is empty), then the
\* completion event is emitted; line 648 returns the response
EmitCompleted ==
    /\ req.pc = "completed"
    /\ \E p \in Producers, bad \in SUBSET GenericHandlers, slow \in SUBSET GenericHandlers :
          /\ BusEmit(p, bad, slow)
          /\ req' = AfterEmit(req, "completed", nextEv, EmitOutcome(prod', raisedAt', nextEv))
    /\ UNCHANGED <<reqIn, assignments, executor, project_tasks, projects, pm_agent>>
    /\ UNCHANGED <<trackerVars, deltaVars, taskVars, availVars>>

\* lines 650-668: except Exception builds error_response and emits the ERROR
\* event; an exception of that emit leaves the function
EmitError ==
    /\ req.pc = "except"
    /\ \E p \in Producers, bad \in SUBSET GenericHandlers, slow \in SUBSET GenericHandlers :
          /\ BusEmit(p, bad, slow)
          /\ req' = AfterEmit([req EXCEPT !.result = error_response], "except", nextEv,
                              EmitOutcome(prod', raisedAt', nextEv))
    /\ UNCHANGED <<reqIn, assignments, executor, project_tasks, projects, pm_agent>>
    /\ UNCHANGED <<trackerVars, deltaVars, taskVars, availVars>>

\* the emit the handler waits in goes on (bus.py 34-35) and the handler with
\* it: the subscriber it was suspended in finishes or raises
EmitResumes ==
    /\ req.pc = "emitting"
    /\ \E bad \in SUBSET GenericHandlers, slow \in SUBSET GenericHandlers, fails \in BOOLEAN :
          /\ BusResume(FrameOf(req.ev), bad, slow, fails)
          /\ req' = AfterEmit(req, req.at, req.ev, EmitOutcome(prod', raisedAt', req.ev))
    /\ UNCHANGED <<reqIn, assignments, executor, project_tasks, projects, pm_agent>>
    /\ UNCHANGED <<trackerVars, deltaVars, taskVars, availVars>>

\* the request is cancelled while the handler waits in Runner.run or in a
\* suspended emit: CancelledError is no Exception and leaves the handler
Abandon ==
    /\ req.pc \in {"agent", "emitting"}
    /\ IF req.pc = "emitting" THEN BusCancel(FrameOf(req.ev)) ELSE UNCHANGED busVars
    /\ req' = [req EXCEPT !.pc = "abandoned", !.at = "none", !.ev = 0]
    /\ UNCHANGED <<reqIn, assignments, executor, project_tasks, projects, pm_agent>>
    /\ UNCHANGED <<trackerVars, deltaVars, taskVars, availVars>>

\* the strands handler resource_management_agent is called (it is
\* synchronous and emits no event): data that does not validate is answered
\* with the error response
PrototypeRequest ==
    /\ reqIn.impl = "prototype"
    /\ req.pc = "idle"
    /\ req' = IF reqIn.valid THEN [req EXCEPT !.pc = "structured_output"]
              ELSE [req EXCEPT !.pc = "returned", !.result = error_response]
    /\ UNCHANGED <<reqIn, assignments, executor, project_tasks, projects, pm_agent>>
    /\ UNCHANGED <<busVars, trackerVars, deltaVars, taskVars, availVars>>

\* the responses the language model may fill in
StructuredOutputs ==
    {ResourceManagementResponse(s, n, a, w) :
        s \in BOOLEAN, n \in 0..MaxAffected, a \in SUBSET NewTaskAssignments,
        w \in {{}, {TaskWarning(1)}}}

\* lines 503-513: the handler's one call, resource_agent.structured_output(
\* ResourceManagementResponse, prompt), returns the response the language
\* model filled in, or raises and the except block answers with the error
\* response; the handler calls none of the module's tools itself
PrototypeReturn ==
    /\ req.pc = "structured_output"
    /\ \E ok \in BOOLEAN, out \in StructuredOutputs :
          req' = IF ok
                 THEN [req EXCEPT !.pc = "returned", !.result = out, !.ran = TRUE]
                 ELSE [req EXCEPT !.pc = "returned", !.result = error_response]
    /\ UNCHANGED <<reqIn, assignments, executor, project_tasks, projects, pm_agent>>
    /\ UNCHANGED <<busVars, trackerVars, deltaVars, taskVars, availVars>>

\* the executor (project_management_agent) calls one of its tools: the
\* queries and the write, then, when the write is reported as a success, the
\* event of the writing tools
ExecutorToolCall ==
    /\ executor.pc = "idle"
    /\ executor.calls + pm_agent.calls < MaxExecutorCalls
    /\ \E tool \in project_management_tools, ok \in BOOLEAN, built \in BOOLEAN :
       \E a \in ToolArgs(tool) :
          LET w == Writes(tool, a, ok) /\ RowStored(tool)
              s == Reports(tool, w, built)
          IN /\ Len(tool_call(tool, assignments, a.row, w)) <= MaxRows
             /\ assignments' = tool_call(tool, assignments, a.row, w)
             /\ project_tasks' = IF w THEN update_task(tool, a, project_tasks)
                                 ELSE project_tasks
             /\ projects' = IF w THEN update_project(tool, a, projects) ELSE projects
             /\ IF s /\ tool \in emitting_tools
                THEN \E p \in Producers, bad \in SUBSET GenericHandlers,
                        slow \in SUBSET GenericHandlers :
                        /\ BusEmit(p, bad, slow)
                        /\ executor' = AfterToolEmit([executor EXCEPT !.calls = @ + 1],
                                          tool, nextEv,
                                          EmitOutcome(prod', raisedAt', nextEv))
                ELSE /\ executor' = [executor EXCEPT
                                        !.calls = @ + 1,
                                        !.result = IF s THEN "success" ELSE "failure"]
                     /\ UNCHANGED busVars
    /\ UNCHANGED <<reqIn, req, pm_agent>>
    /\ UNCHANGED <<trackerVars, deltaVars, taskVars, availVars>>

\* tools=[...] of pm_agent, the agent the strands handler
\* (backend/app/agents/project_management.py) builds for a query
pm_agent_tools ==
    {"create_project_record", "update_project_record", "get_project_details",
     "create_project_task", "get_available_clients", "analyze_project_status",
     "get_all_projects", "get_projects_by_client", "get_projects_by_status",
     "get_active_projects", "get_overdue_projects", "search_projects",
     "update_project_status_tool", "get_task_by_id", "get_project_tasks",
     "update_task_status", "update_task_hours", "update_task_details",
     "get_tasks_by_status", "get_overdue_tasks"}

\* the public tools of the strands module that delete a row; they are not
\* in the list of pm_agent
deleting_tools == {"delete_task", "delete_project_tool"}

\* ProjectTaskService.delete_task / ProjectService.delete_project: the row is gone
delete_row(r) == [r EXCEPT !.stored = FALSE]

\* whether a strands tool writes: its query succeeds and finds the row (ok)
\* and there is something to write; no date is validated
StrandsWrites(tool, a, ok) ==
    /\ ok
    /\ RowStored(tool)
    /\ tool = "update_task_details" => ~NoUpdates(a)

\* a tool of the strands project module is called: it is synchronous, writes
\* through ProjectTaskService / ProjectService and emits no event
PrototypeExecutorToolCall ==
    /\ executor.calls + pm_agent.calls < MaxExecutorCalls
    /\ \E tool \in pm_agent_tools \cup deleting_tools, ok \in BOOLEAN, built \in BOOLEAN :
       \E a \in ToolArgs(tool) :
          LET w == StrandsWrites(tool, a, ok)
              s == Reports(tool, w, built)
          IN /\ project_tasks' = IF ~w THEN project_tasks
                                 ELSE IF tool = "delete_task" THEN delete_row(project_tasks)
                                 ELSE update_task(tool, a, project_tasks)
             /\ projects' = IF ~w THEN projects
                            ELSE IF tool = "delete_project_tool" THEN delete_row(projects)
                            ELSE update_project(tool, a, projects)
             /\ pm_agent' = [calls |-> pm_agent.calls + 1,
                             result |-> IF s THEN "success" ELSE "failure"]
    /\ UNCHANGED <<reqIn, req, assignments, executor>>
    /\ UNCHANGED <<busVars, trackerVars, deltaVars, taskVars, availVars>>

\* the writing tools the strands resource module defines and lists in
\* tools=[...] of resource_agent
resource_agent_write_tools == {"create_new_task_assignment", "remove_task_assignment"}

\* the strands tools create_new_task_assignment / remove_task_assignment
\* (backend/app/agents/resource_management.py 340-405): insert a row, delete
\* the matching rows; a query that raises (~ok) leaves the rows as they are
resource_agent_tool_call(tool, rows, row, ok) ==
    IF ~ok THEN rows
    ELSE IF tool = "create_new_task_assignment" THEN Append(rows, row)
    ELSE IF tool = "remove_task_assignment" THEN delete(rows, row)
    ELSE rows

\* a writing tool of the strands resource module is called: it is
\* synchronous, writes staffer_assignments and emits no event; no handler
\* calls it (resource_management_agent only calls structured_output)
PrototypeAssignmentToolCall ==
    /\ executor.calls + pm_agent.calls < MaxExecutorCalls
    /\ \E tool \in resource_agent_write_tools, row \in AssignmentRows, ok \in BOOLEAN :
          /\ Len(resource_agent_tool_call(tool, assignments, row, ok)) <= MaxRows
          /\ assignments' = resource_agent_tool_call(tool, assignments, row, ok)
          /\ pm_agent' = [calls |-> pm_agent.calls + 1,
                          result |-> IF ok THEN "success" ELSE "failure"]
    /\ UNCHANGED <<reqIn, req, executor, project_tasks, projects>>
    /\ UNCHANGED <<busVars, trackerVars, deltaVars, taskVars, availVars>>

\* the emit an executor tool waits in goes on, and the tool with it
ExecutorResumes ==
    /\ executor.pc = "emitting"
    /\ \E bad \in SUBSET GenericHandlers, slow \in SUBSET GenericHandlers, fails \in BOOLEAN :
          /\ BusResume(FrameOf(executor.ev), bad, slow, fails)
          /\ executor' = AfterToolEmit(executor, executor.tool, executor.ev,
                            EmitOutcome(prod', raisedAt', executor.ev))
    /\ UNCHANGED <<reqIn, req, assignments, project_tasks, projects, pm_agent>>
    /\ UNCHANGED <<trackerVars, deltaVars, taskVars, availVars>>

\* the executor's run is cancelled while its tool waits in a suspended emit
ExecutorCancelled ==
    /\ executor.pc = "emitting"
    /\ BusCancel(FrameOf(executor.ev))
    /\ executor' = [executor EXCEPT !.pc = "idle", !.tool = "none", !.ev = 0,
                                     !.result = "cancelled"]
    /\ UNCHANGED <<reqIn, req, assignments, project_tasks, projects, pm_agent>>
    /\ UNCHANGED <<trackerVars, deltaVars, taskVars, availVars>>

\* subscriber lists of a running server: nobody listens, or a generic
\* callback and an SSE client
ReadyLists == {<<>>, <<"g1", "c1">>}

\* the bus of a running server: event_bus constructed at import, the
\* callbacks subscribed, the SSE generators waiting in queue.get()
BusReady ==
    /\ instance = 1
    /\ nInst = 1
    /\ refs = {1}
    /\ subscribers \in ReadyLists
    /\ prod = [p \in Producers |-> [pc |-> "idle", ev |-> 0, idx |-> 0, at |-> "none"]]
    /\ nextEv = 1
    /\ queue = [c \in AllConns |-> <<>>]
    /\ conn = [c \in AllConns |-> IF InList(c, subscribers) THEN "streaming" ELSE "new"]
    /\ nSub = Cardinality({i \in 1..Len(subscribers) : subscribers[i] \in GenericHandlers})
    /\ rebuilt = FALSE
    /\ log = [h \in Handlers |-> <<>>]
    /\ present = [e \in EmitIds |-> {}]
    /\ stable = [e \in EmitIds |-> {}]
    /\ raisedAt = [e \in EmitIds |-> "none"]

\* a request whose data validates or not, sent to handle_resource_management
\* or to the strands handler; what the agent's tools will find: the number of
\* overlapping assignments and the ones without a candidate
ReqInit ==
    /\ reqIn \in {[impl |-> m, valid |-> v, affected |-> n, unresolved |-> u] :
                     m \in {"live", "prototype"}, v \in BOOLEAN,
                     n \in 0..MaxAffected, u \in SUBSET AffectedTasks}
    /\ \A t \in reqIn.unresolved : t <= reqIn.affected
    /\ req = NoHandler
    /\ assignments \in SeqsUpTo(AssignmentRows, 1)
    /\ executor = NoTool
    /\ project_tasks = [start_date |-> IsoDate(0), due_date |-> NoDate,
                        status |-> "not_started", stored |-> TRUE]
    /\ projects = [status |-> "active", due_date |-> NoDate, stored |-> TRUE]
    /\ pm_agent = [calls |-> 0, result |-> "none"]

\* no request is handled
ReqIdle ==
    /\ reqIn = [impl |-> "live", valid |-> FALSE, affected |-> 0, unresolved |-> {}]
    /\ req = NoHandler
    /\ assignments = <<>>
    /\ executor = NoTool
    /\ project_tasks = [start_date |-> IsoDate(0), due_date |-> NoDate,
                        status |-> "not_started", stored |-> TRUE]
    /\ projects = [status |-> "active", due_date |-> NoDate, stored |-> TRUE]
    /\ pm_agent = [calls |-> 0, result |-> "none"]

\* no request is sent to either handler
NoRequest == [impl |-> "none", valid |-> FALSE, affected |-> 0, unresolved |-> {}]
\* a time-off request that validates, sent to handle_resource_management
LiveRequest == [impl |-> "live", valid |-> TRUE, affected |-> 0, unresolved |-> {}]

\* the tool is about to be called on its own with any tables and arguments,
\* or by the agent of a time-off request about a project with a team
CandidateInit ==
    /\ \/ availIn \in LoopInputs(MaxPto)
       \/ availIn \in EarlyInputs
       \/ availIn \in TeamInputs(MaxPto)
    /\ availOut = [returned |-> FALSE, staffers |-> <<>>]
    /\ reqIn \in {NoRequest, LiveRequest}
    \* a request is about a table with a team (TeamInputs)
    /\ reqIn = LiveRequest => Len(availIn.table) = 2
    /\ req = NoHandler
    /\ assignments = <<>>
    /\ executor = NoTool
    /\ project_tasks = [start_date |-> IsoDate(0), due_date |-> NoDate,
                        status |-> "not_started", stored |-> TRUE]
    /\ projects = [status |-> "active", due_date |-> NoDate, stored |-> TRUE]
    /\ pm_agent = [calls |-> 0, result |-> "none"]

CandidateNext ==
    \/ reqIn = NoRequest /\ FindAvailable
    \/ HandleRequest
    \/ EmitStarted
    \/ AgentFindsStaffers
    \/ RunAgent
    \/ EmitCompleted
    \/ EmitError
    \/ Abandon

ReqNext ==
    \/ HandleRequest
    \/ EmitStarted
    \/ AgentToolCall
    \/ RunAgent
    \/ EmitCompleted
    \/ EmitError
    \/ EmitResumes
    \/ Abandon
    \/ PrototypeRequest
    \/ PrototypeReturn
    \/ ExecutorToolCall
    \/ PrototypeExecutorToolCall
    \/ PrototypeAssignmentToolCall
    \/ ExecutorResumes
    \/ ExecutorCancelled

\* none of the pure computations is in use
CalcIdle == DeltaIdle /\ TaskIdle /\ AvailIdle /\ ReqIdle

(***************************************************************************)
(* Profitability tracker                                                   *)
(***************************************************************************)
\* number of tool calls started in one run
MaxCalls == 2

\* threads running tool calls (the agent runtime runs synchronous tools on
\* worker threads)
Threads == {1, 2}
Projects == {1, 2}
\* triggered_by_agent values: the default "system" and a calling agent
Agents == {"system", "resource"}
\* triggered_by_agent of a change: the agent that made it
CallerAgents == {"resource"}
\* results of the external profitability calculation
Values == {0, 1}


\* snapshot ids of the baselines of project P (baseline_id is null)
Baselines(P, st) == {i \in 1..Len(st) : st[i].project = P /\ st[i].baseline_id = 0}

\* a faulty query that returns the oldest baseline of P
LatestBaselineAscending(P, st) ==
    CHOOSE i \in Baselines(P, st) : \A j \in Baselines(P, st) : st[i].created_at <= st[j].created_at

\* .order("created_at", desc=True).limit(1) over the baselines of P
LatestBaseline(P, st) ==
    CHOOSE i \in Baselines(P, st) : \A j \in Baselines(P, st) : st[j].created_at <= st[i].created_at

\* ProfitabilityService.get_latest_baseline_for_project; ok is FALSE when the
\* data store raises or is not configured
get_latest_baseline_for_project(P, st, ok) ==
    IF ok /\ Baselines(P, st) # {}
    THEN [success |-> TRUE, id |-> LatestBaseline(P, st)]
    ELSE [success |-> FALSE, id |-> 0]

\* the row create_snapshot_from_project_id inserts
SnapshotRow(P, b, v, a, act, ts) ==
    [project |-> P, baseline_id |-> b, total_profitability |-> v,
     triggered_by_agent |-> a, triggered_by_action |-> act, created_at |-> ts]

\* a faulty write that replaces the newest stored row of the same project
insertOrReplace(st, row) ==
    IF \E i \in 1..Len(st) : st[i].project = row.project
    THEN LET k == CHOOSE i \in 1..Len(st) :
                     /\ st[i].project = row.project
                     /\ \A j \in 1..Len(st) : st[j].project = row.project => j <= i
         IN [st EXCEPT ![k] = row]
    ELSE Append(st, row)

\* table("project_profitability_snapshots").insert(snapshot_data).execute():
\* the only write the service issues
insert(st, row) == Append(st, row)

\* the row create_profitability_snapshot_after_change inserts
ComparisonRow(P, b, v, a, ts) == SnapshotRow(P, b, v, a, "change", ts)

\* triggered_by_action of a baseline, by the caller of create_profitability_baseline
BaselineAction(from) ==
    CASE from = "top" -> "baseline_creation"
      [] from = "sac" -> "auto_baseline_before_change"
      [] from = "mon" -> "initial_baseline"

\* a faulty bookkeeping step that forgets the project
MarkCreatedNoop(P, cr) == cr

\* _project_baselines_created.add(project_id)
MarkCreated(P, cr) == cr \cup {P}

\* no snapshot has been read
NoSnapshot == [project_id |-> 0, total_profitability |-> 0]

IdleCall ==
    [op |-> "none", proj |-> 0, agent |-> "none", pc |-> "idle", cbFrom |-> "none",
     cbAgent |-> "none", val |-> 0, ts |-> 0, base |-> 0, snap |-> 0,
     startedCreated |-> FALSE, hadBase |-> FALSE, len0 |-> 0, wroteBase |-> 0,
     wroteSnap |-> 0, success |-> FALSE, exists |-> FALSE, analysis |-> FALSE,
     deltaBase |-> 0, delta |-> <<>>, noData |-> FALSE, noBaseline |-> FALSE,
     dbErr |-> FALSE, calcFailed |-> FALSE, current |-> NoSnapshot]

Running(t) == calls[t].pc \notin {"idle", "done"}

\* the call returns: its result stays, its locals go
Return(c, ok) == [c EXCEPT !.pc = "done", !.success = ok, !.val = 0, !.ts = 0,
                           !.cbFrom = "none", !.cbAgent = "none", !.calcFailed = FALSE,
                           !.current = NoSnapshot]

\* create_profitability_baseline up to its first data-store call: the check of
\* the session set
EnterBaseline(c, from, a) ==
    IF c.proj \in created
    THEN \* "Baseline already exists ... in current session"
         CASE from = "top" -> Return([c EXCEPT !.exists = TRUE], TRUE)
           [] from = "sac" -> [c EXCEPT !.pc = "get2"]
           [] from = "mon" -> [c EXCEPT !.pc = "get1"]
    ELSE [c EXCEPT !.pc = "compute_b", !.cbFrom = from, !.cbAgent = a]

\* a tool call starts and runs up to its first data-store call
Start(t, op, P, a) ==
    LET c == [IdleCall EXCEPT !.op = op, !.proj = P, !.agent = a,
                              !.startedCreated = (P \in created),
                              !.hadBase = (Baselines(P, store) # {}),
                              !.len0 = Len(store)]
    IN /\ nCalls < MaxCalls
       /\ nCalls' = nCalls + 1
       /\ calls' = [calls EXCEPT ![t] =
             CASE op = "baseline" -> EnterBaseline(c, "top", a)
               [] op = "snapshot" -> [c EXCEPT !.pc = "get1"]
               [] op = "trends" -> [c EXCEPT !.pc = "latest"]
               [] op = "monitor" ->
                     IF P \notin created
                     THEN EnterBaseline(c, "mon", "system")
                     ELSE [c EXCEPT !.pc = "get1"]]
       /\ UNCHANGED <<store, created, clock>>
       /\ UNCHANGED <<busVars, calcVars>>

\* worker threads are interchangeable: a call takes the lowest thread that has
\* run nothing yet, or else the lowest thread that has returned
FreeThread(t) ==
    IF \E u \in Threads : calls[u].pc = "idle"
    THEN calls[t].pc = "idle" /\ \A u \in Threads : calls[u].pc = "idle" => t <= u
    ELSE calls[t].pc = "done" /\ \A u \in Threads : calls[u].pc = "done" => t <= u

\* a tool call starts on thread t while other calls may be running
Call(t, op, P, a) ==
    /\ FreeThread(t)
    /\ Start(t, op, P, a)

\* a tool call starts when no other call is running
CallAlone(t, op, P, a) ==
    /\ \A u \in Threads : ~Running(u)
    /\ FreeThread(t)
    /\ Start(t, op, P, a)

\* outcomes of functions.invoke("get-total-profitability"): a figure, or an
\* exception when the function is unreachable or fails
Responses == {[raised |-> FALSE, data |-> v] : v \in Values} \cup {[raised |-> TRUE, data |-> 0]}

\* ProfitabilityService.calculate_project_profitability: an exception is
\* printed and 0.0 returned
calculate_project_profitability(resp) == IF resp.raised THEN 0 ELSE resp.data

\* calculate_project_profitability, then created_at = utcnow()
ComputeProfit(t) ==
    /\ calls[t].pc \in {"compute_b", "compute_s"}
    /\ \E resp \in Responses :
         calls' = [calls EXCEPT ![t] =
             [@ EXCEPT !.val = calculate_project_profitability(resp), !.ts = clock,
                       !.calcFailed = (@ \/ resp.raised),
                       !.pc = IF @ = "compute_b" THEN "insert_b" ELSE "insert_s"]]
    /\ clock' = clock + 1
    /\ UNCHANGED <<store, created, nCalls>>
    /\ UNCHANGED <<busVars, calcVars>>

\* create_profitability_baseline: the insert of the baseline row
\* (create_snapshot_from_project_id); the data store holds the row while the
\* call has not yet returned to line 112
InsertBaseline(t) ==
    /\ calls[t].pc = "insert_b"
    /\ LET c == calls[t]
           row == SnapshotRow(c.proj, 0, c.val, c.cbAgent, BaselineAction(c.cbFrom), c.ts)
       IN \E ok \in BOOLEAN :
            IF ok
            THEN /\ store' = insert(store, row)
                 /\ calls' = [calls EXCEPT ![t] =
                       [c EXCEPT !.wroteBase = @ + 1, !.pc = "track_b"]]
            ELSE /\ calls' = [calls EXCEPT ![t] = Return(c, FALSE)]
                 /\ UNCHANGED store
    /\ UNCHANGED <<created, clock, nCalls>>
    /\ UNCHANGED <<busVars, calcVars>>

\* create_profitability_baseline after the insert has returned:
\* _project_baselines_created.add (line 114) and what follows it up to the
\* next data-store call
TrackBaseline(t) ==
    /\ calls[t].pc = "track_b"
    /\ LET c == calls[t]
       IN /\ created' = MarkCreated(c.proj, created)
          /\ calls' = [calls EXCEPT ![t] =
                CASE c.cbFrom = "top" -> Return(c, TRUE)
                  [] c.cbFrom = "sac" -> [c EXCEPT !.pc = "get2"]
                  [] c.cbFrom = "mon" -> [c EXCEPT !.pc = "get1"]]
    /\ UNCHANGED <<store, clock, nCalls>>
    /\ UNCHANGED <<busVars, calcVars>>

\* create_profitability_snapshot_after_change: get_latest_baseline_for_project,
\* first ("get1") or after the automatic baseline ("get2")
GetBaseline(t) ==
    /\ calls[t].pc \in {"get1", "get2"}
    /\ LET c == calls[t]
       IN \E ok \in BOOLEAN :
            LET r == get_latest_baseline_for_project(c.proj, store, ok)
            IN calls' = [calls EXCEPT ![t] =
                  IF r.success THEN [c EXCEPT !.base = r.id, !.pc = "compute_s"]
                  ELSE IF c.pc = "get1" THEN EnterBaseline(c, "sac", "system")
                  ELSE \* baseline is None: baseline.id raises, caught at line 236
                       Return(c, FALSE)]
    /\ UNCHANGED <<store, created, clock, nCalls>>
    /\ UNCHANGED <<busVars, calcVars>>

\* create_profitability_snapshot_after_change: the insert of the comparison row
InsertSnapshot(t) ==
    /\ calls[t].pc = "insert_s"
    /\ LET c == calls[t]
       IN \E ok \in BOOLEAN :
            IF ok
            THEN /\ store' = insert(store, ComparisonRow(c.proj, c.base, c.val, c.agent, c.ts))
                 /\ calls' = [calls EXCEPT ![t] =
                       [c EXCEPT !.snap = Len(store) + 1, !.wroteSnap = @ + 1, !.pc = "by_id"]]
            ELSE /\ calls' = [calls EXCEPT ![t] = Return(c, FALSE)]
                 /\ UNCHANGED store
    /\ UNCHANGED <<created, clock, nCalls>>
    /\ UNCHANGED <<busVars, calcVars>>

\* ProfitabilityService.get_profitability_snapshot_by_id: .eq("id", ...) over
\* the rows; ok is FALSE when the data store raises or is not configured
get_profitability_snapshot_by_id(sid, st, ok) ==
    IF ok /\ sid \in 1..Len(st)
    THEN [success |-> TRUE,
          snapshot |-> [project_id |-> st[sid].project,
                        total_profitability |-> st[sid].total_profitability]]
    ELSE [success |-> FALSE, snapshot |-> NoSnapshot]

\* ProfitabilityService.calculate_profitability_change_since_baseline after
\* its first read (lines 270-300): reads the latest baseline of the
\* snapshot's project, then computes the delta of the snapshot it holds; ok
\* is FALSE when the read fails
calculate_profitability_change_since_baseline(current, st, ok) ==
    LET r == get_latest_baseline_for_project(current.project_id, st, ok)
    IN IF r.success
       THEN [success |-> TRUE, base |-> r.id,
             delta |-> <<ProfitabilityDelta(current.total_profitability,
                                            st[r.id].total_profitability)>>]
       ELSE [success |-> FALSE, base |-> 0, delta |-> <<>>]

\* calculate_profitability_change_since_baseline, first read (lines 259-268):
\* the snapshot just written (snapshot_after_change) or the latest snapshot
\* (trends) is read by id; when the read fails the calculation reports no
\* delta and the call returns success without one
SnapshotById(t) ==
    /\ calls[t].pc = "by_id"
    /\ LET c == calls[t]
       IN \E ok \in BOOLEAN :
            LET r == get_profitability_snapshot_by_id(c.snap, store, ok)
                d == [c EXCEPT !.dbErr = (@ \/ (c.op = "trends" /\ ~ok))]
            IN calls' = [calls EXCEPT ![t] =
                  IF r.success THEN [d EXCEPT !.current = r.snapshot, !.pc = "delta"]
                  ELSE Return([d EXCEPT !.analysis = FALSE, !.deltaBase = 0,
                                        !.delta = <<>>], TRUE)]
    /\ UNCHANGED <<store, created, clock, nCalls>>
    /\ UNCHANGED <<busVars, calcVars>>

\* calculate_profitability_change_since_baseline, second read and the delta
\* (lines 270-300); the call returns success with or without a delta
Delta(t) ==
    /\ calls[t].pc = "delta"
    /\ LET c == calls[t]
       IN \E ok \in BOOLEAN :
            LET r == calculate_profitability_change_since_baseline(c.current, store, ok)
            IN calls' = [calls EXCEPT ![t] =
                  Return([c EXCEPT !.analysis = r.success, !.deltaBase = r.base,
                                   !.delta = r.delta,
                                   !.dbErr = (@ \/ (c.op = "trends" /\ ~ok))], TRUE)]
    /\ UNCHANGED <<store, created, clock, nCalls>>
    /\ UNCHANGED <<busVars, calcVars>>

\* snapshot ids of the rows of project P
Snapshots(P, st) == {i \in 1..Len(st) : st[i].project = P}

\* a faulty query that returns the oldest row of P
LatestSnapshotAscending(P, st) ==
    CHOOSE i \in Snapshots(P, st) : \A j \in Snapshots(P, st) : st[i].created_at <= st[j].created_at

\* .order("created_at", desc=True).limit(1) over the rows of P
LatestSnapshot(P, st) ==
    CHOOSE i \in Snapshots(P, st) : \A j \in Snapshots(P, st) : st[j].created_at <= st[i].created_at

\* ProfitabilityService.get_latest_snapshot_for_project
get_latest_snapshot_for_project(P, st, ok) ==
    IF ok /\ Snapshots(P, st) # {}
    THEN [success |-> TRUE, id |-> LatestSnapshot(P, st)]
    ELSE [success |-> FALSE, id |-> 0]

\* analyze_profitability_trends: get_latest_snapshot_for_project
TrendsLatest(t) ==
    /\ calls[t].pc = "latest"
    /\ LET c == calls[t]
       IN \E ok \in BOOLEAN :
            LET r == get_latest_snapshot_for_project(c.proj, store, ok)
                d == [c EXCEPT !.dbErr = (@ \/ ~ok)]
            IN calls' = [calls EXCEPT ![t] =
                  IF r.success THEN [d EXCEPT !.snap = r.id, !.pc = "tbase"]
                  ELSE \* "No profitability data found for project"
                       Return([d EXCEPT !.noData = TRUE], FALSE)]
    /\ UNCHANGED <<store, created, clock, nCalls>>
    /\ UNCHANGED <<busVars, calcVars>>

\* analyze_profitability_trends: get_latest_baseline_for_project
TrendsBaseline(t) ==
    /\ calls[t].pc = "tbase"
    /\ LET c == calls[t]
       IN \E ok \in BOOLEAN :
            LET r == get_latest_baseline_for_project(c.proj, store, ok)
                d == [c EXCEPT !.dbErr = (@ \/ ~ok)]
            IN calls' = [calls EXCEPT ![t] =
                  IF r.success THEN [d EXCEPT !.pc = "by_id"]
                  ELSE \* baseline_comparison = {"error": "No baseline found for comparison"}
                       Return([d EXCEPT !.noBaseline = TRUE], TRUE)]
    /\ UNCHANGED <<store, created, clock, nCalls>>
    /\ UNCHANGED <<busVars, calcVars>>

\* a baseline left by an earlier session
OldBaseline == SnapshotRow(1, 0, 1, "system", "baseline_creation", 0)

TrackerInit ==
    /\ store \in {<<>>, <<OldBaseline>>}
    /\ created = {}
    /\ clock = 1
    /\ calls = [t \in Threads |-> IdleCall]
    /\ nCalls = 0

TrackerIdle ==
    /\ store = <<>>
    /\ created = {}
    /\ clock = 1
    /\ calls = [t \in Threads |-> IdleCall]
    /\ nCalls = 0

TrackerNext ==
    \/ \E t \in Threads, P \in Projects, a \in Agents : Call(t, "baseline", P, a)
    \/ \E t \in Threads, P \in Projects : Call(t, "trends", P, "none")
    \/ \E t \in Threads, P \in Projects, a \in CallerAgents : Call(t, "snapshot", P, a)
    \/ \E t \in Threads, P \in Projects, a \in CallerAgents : Call(t, "monitor", P, a)
    \/ \E t \in Threads : ComputeProfit(t)
    \/ \E t \in Threads : InsertBaseline(t)
    \/ \E t \in Threads : TrackBaseline(t)
    \/ \E t \in Threads : GetBaseline(t)
    \/ \E t \in Threads : InsertSnapshot(t)
    \/ \E t \in Threads : SnapshotById(t)
    \/ \E t \in Threads : Delta(t)
    \/ \E t \in Threads : TrendsLatest(t)
    \/ \E t \in Threads : TrendsBaseline(t)

TrackerSeqNext ==
    \/ \E t \in Threads, P \in Projects, a \in Agents : CallAlone(t, "baseline", P, a)
    \/ \E t \in Threads, P \in Projects : CallAlone(t, "trends", P, "none")
    \/ \E t \in Threads, P \in Projects, a \in CallerAgents : CallAlone(t, "snapshot", P, a)
    \/ \E t \in Threads, P \in Projects, a \in CallerAgents : CallAlone(t, "monitor", P, a)
    \/ \E t \in Threads : ComputeProfit(t)
    \/ \E t \in Threads : InsertBaseline(t)
    \/ \E t \in Threads : TrackBaseline(t)
    \/ \E t \in Threads : GetBaseline(t)
    \/ \E t \in Threads : InsertSnapshot(t)
    \/ \E t \in Threads : SnapshotById(t)
    \/ \E t \in Threads : Delta(t)
    \/ \E t \in Threads : TrendsLatest(t)
    \/ \E t \in Threads : TrendsBaseline(t)

(***************************************************************************)
(* Specifications                                                          *)
(***************************************************************************)
\* the state after import, the store as earlier sessions left it
Init == BusInit /\ TrackerInit /\ CalcIdle

\* the state after import with an empty store
BusOnlyInit == BusInit /\ TrackerIdle /\ CalcIdle

\* the event bus with its producers and subscribers
BusSpec == BusOnlyInit /\ [][BusNext]_vars

\* the event loop runs a cancelled generator's finally block
BusFairSpec == BusSpec /\ \A c \in Conns : WF_vars(Finalize(c))

\* the event bus with two SSE connections and handlers that may raise
BusWideSpec == BusOnlyInit /\ [][BusWideNext]_vars

\* the tracker with tool calls running concurrently
TrackerSpec == Init /\ [][TrackerNext]_vars

\* the tracker with tool calls made one after another
TrackerSeqSpec == Init /\ [][TrackerSeqNext]_vars

\* any pair of amounts, bus and tracker at rest
DeltaOnlyInit == BusInit /\ TrackerIdle /\ TaskIdle /\ AvailIdle /\ ReqIdle /\ DeltaInit

\* any rows and window, everything else at rest
TaskOnlyInit == BusInit /\ TrackerIdle /\ DeltaIdle /\ AvailIdle /\ ReqIdle /\ TaskInit

\* get_staffer_task_assignments on its own
TaskSpec == TaskOnlyInit /\ [][TaskNext]_vars

\* the delta arithmetic on its own
DeltaSpec == DeltaOnlyInit /\ [][DeltaNext]_vars

\* any tables and arguments, everything else at rest
AvailOnlyInit == BusInit /\ TrackerIdle /\ DeltaIdle /\ TaskIdle /\ ReqIdle /\ AvailInit

\* find_available_staffers on its own
AvailSpec == AvailOnlyInit /\ [][AvailNext]_vars

RankOnlyInit == BusInit /\ TrackerIdle /\ DeltaIdle /\ TaskIdle /\ ReqIdle /\ RankInit

\* find_available_staffers ranking several staffers
RankSpec == RankOnlyInit /\ [][AvailNext]_vars

\* a time-off request and the store of assignments, everything else at rest
ReqOnlyInit == BusReady /\ TrackerIdle /\ DeltaIdle /\ TaskIdle /\ AvailIdle /\ ReqInit

\* handle_resource_management, its agent's tools and the executor's tools
ReqSpec == ReqOnlyInit /\ [][ReqNext]_vars

\* a server nobody listens to, the tables of the availability filter and
\* a time-off request or none
CandidateOnlyInit ==
    BusReady /\ subscribers = <<>> /\ TrackerIdle /\ DeltaIdle /\ TaskIdle /\ CandidateInit

\* find_available_staffers on its own and within a run of
\* handle_resource_management
CandidateSpec == CandidateOnlyInit /\ [][CandidateNext]_vars

Next ==
    \/ BusWideNext \/ TrackerNext \/ DeltaNext \/ TaskNext \/ AvailNext \/ ReqNext
    \/ AgentFindsStaffers

Spec == Init /\ [][Next]_vars

(***************************************************************************)
(* Properties of the EventBus                                              *)
(***************************************************************************)
\* C1: delivery follows the order of the emit calls: no handler is invoked
\* with a later-emitted event before an earlier-emitted one (event ids are
\* assigned in emit-call order).
C1_GlobalOrder ==
    \A h \in Handlers : \A i, j \in 1..Len(log[h]) :
        i < j => log[h][i] <= log[h][j]

\* C2: once emit(e) has returned, every handler that stayed subscribed from
\* the call to the return was invoked with e exactly once.
C2_ExactlyOnce ==
    \A e \in Finished : \A h \in stable[e] : Count(e, log[h]) = 1

\* C3 as stated: while a handler is still processing e, the other handlers
\* subscribed throughout have already been handed e.
C3_NeverBlocks ==
    \A p \in Producers :
        prod[p].pc = "suspended" =>
            \A h \in stable[prod[p].ev] : InList(prod[p].ev, log[h])

\* C3 amended: an SSE subscriber never holds emit back: emit is never
\* suspended inside handle_event, whatever the backlog of the connection's
\* queue and whether or not its client is still there; only a generic
\* callback that suspends holds the producer.
C3_SseNeverBlocks ==
    \A p \in Producers :
        prod[p].pc = "suspended" => prod[p].at \in GenericHandlers

\* C3 witness: the SSE client has consumed nothing (both events wait in its
\* queue) and the handler subscribed after it was still handed both events.
C3_Witness ==
    /\ Len(subscribers) = 2 /\ subscribers[1] \in Conns
    /\ Len(queue[subscribers[1]]) = MaxEvents
    /\ Len(log[subscribers[2]]) = MaxEvents
    /\ Finished = Events

\* C4: at the step where emit(e) returns, every handler that stayed
\* subscribed during the emit has been invoked with e.
C4_ReturnsAfterAll ==
    [][\A e \in Events :
          (e \notin Finished /\ e \in Finished') =>
              \A h \in stable'[e] : InList(e, log'[h])]_vars

\* C5: a cancelled SSE generator leads to its handler leaving the subscriber
\* list; a closed connection's handler is never in the list and is never
\* invoked again.
C5_DisconnectUnsubscribes ==
    /\ \A c \in Conns :
          (conn[c] = "cancelling") ~> (conn[c] = "closed" /\ ~InList(c, subscribers))
    /\ [](\A c \in Conns : conn[c] = "closed" => ~InList(c, subscribers))
    /\ [][\A c \in Conns : conn[c] = "closed" => log'[c] = log[c]]_vars

\* C5 witness: a connection that received an event has closed, and an event
\* emitted after it left the list did not reach it.
C5_Witness ==
    \E c \in Conns :
        /\ conn[c] = "closed"
        /\ log[c] # <<>>
        /\ \E e \in Finished : c \notin present[e] /\ ~InList(e, log[c])

\* C6: a handler is invoked with e only if it was subscribed when emit(e)
\* was called.
C6_SubscribeBeforeEmit ==
    \A h \in Handlers : \A i \in 1..Len(log[h]) : h \in present[log[h][i]]

\* C7: one EventBus object and one subscriber list are ever created, every
\* construction returns that object, and a construction made while handlers
\* are subscribed leaves the list as it is.
C7_Singleton ==
    /\ [](nInst <= 1 /\ Cardinality(refs) <= 1 /\ (instance = 0 <=> nInst = 0))
    /\ [][(rebuilt' /\ ~rebuilt) => subscribers' = subscribers]_vars
    /\ [][instance # 0 => instance' = instance]_vars

\* C7 witness: EventBus() was called again with a handler subscribed, and
\* that handler afterwards received an event emitted through the bus.
C7_Witness ==
    /\ rebuilt
    /\ refs = {1}
    /\ \E h \in Handlers : InList(h, subscribers) /\ log[h] # <<>>

(***************************************************************************)
(* Properties of the profitability tracker                                 *)
(***************************************************************************)
\* baselines of P written in this session (rows of earlier sessions carry
\* created_at 0)
SessionBaselines(P) == {i \in Baselines(P, store) : store[i].created_at > 0}

\* C8: with calls made one after another, a project has exactly one baseline
\* of this session once it is in the session set, or while the call that
\* stored it is about to add it to the set, and none before; a
\* create_baseline call that finds the project in the set returns success
\* with baseline_exists and writes nothing, one that does not find it and
\* succeeds writes exactly one baseline, and a failed one writes nothing.
C8_BaselineIdempotent ==
    /\ \A P \in Projects :
          LET stored == \E t \in Threads :
                            calls[t].pc = "track_b" /\ calls[t].proj = P
          IN Cardinality(SessionBaselines(P)) =
                 (IF P \in created \/ stored THEN 1 ELSE 0)
    /\ \A t \in Threads :
          LET c == calls[t]
          IN (c.pc = "done" /\ c.op = "baseline") =>
               /\ c.startedCreated =>
                    (c.success /\ c.exists /\ c.wroteBase = 0 /\ c.wroteSnap = 0)
               /\ (~c.startedCreated /\ c.success) =>
                    (~c.exists /\ c.wroteBase = 1 /\ c.wroteSnap = 0 /\ c.proj \in created)
               /\ ~c.success => (c.wroteBase = 0 /\ c.wroteSnap = 0)

\* C8 witness: two create_baseline calls on one project have returned, the
\* first having written the baseline, the second reporting baseline_exists.
C8_Witness ==
    \E t, u \in Threads :
        /\ t # u
        /\ calls[t].pc = "done" /\ calls[t].op = "baseline"
        /\ calls[u].pc = "done" /\ calls[u].op = "baseline"
        /\ calls[t].proj = calls[u].proj
        /\ calls[t].success /\ calls[t].wroteBase = 1
        /\ calls[u].success /\ calls[u].exists /\ calls[u].wroteBase = 0
        /\ Cardinality(SessionBaselines(calls[t].proj)) = 1

\* C9: at most one baseline per project is persisted in a session, however
\* the calls interleave.
C9_OneBaselinePerSession ==
    \A P \in Projects : Cardinality(SessionBaselines(P)) <= 1

\* C10: whenever snapshot_after_change(P) returns success, whatever other
\* calls run meanwhile, P is in the session set (BASELINE_EXISTS: a later
\* create_baseline(P) answers "already exists"); the call appended exactly
\* one comparison row, for P and the caller's agent, and no other
\* comparison row; if P had no baseline when the call began a baseline of P
\* precedes that row, written by this call when no other call wrote
\* meanwhile, and a baseline this call wrote is triggered by "system"; the
\* row's baseline reference is the latest baseline of P; stored rows never
\* change and the session set only grows, by the project of a call that has
\* stored a baseline.
C10_SnapshotAfterChange ==
    /\ [][\A t \in Threads :
            (calls[t].pc # "done" /\ calls'[t].pc = "done"
                /\ calls'[t].op = "snapshot" /\ calls'[t].success) =>
              LET c == calls'[t]
                  P == c.proj
                  n == c.len0
              IN /\ P \in created'
                 /\ c.wroteSnap = 1 /\ c.wroteBase <= 1
                 /\ c.snap \in (n + 1)..Len(store')
                 /\ store'[c.snap].project = P
                 /\ store'[c.snap].triggered_by_agent = c.agent
                 /\ store'[c.snap].baseline_id # 0
                 /\ store'[c.snap].baseline_id = LatestBaseline(P, store')
                 /\ ~c.hadBase =>
                      /\ \E b \in Baselines(P, store') : b < c.snap
                      /\ Len(store') = n + c.wroteBase + c.wroteSnap => c.wroteBase = 1
                 /\ c.wroteBase = 1 =>
                      \E b \in (n + 1)..(c.snap - 1) :
                          store'[b] \in
                            {SnapshotRow(P, 0, v, "system", "auto_baseline_before_change", ts) :
                                v \in Values, ts \in 1..clock}]_vars
    /\ [][Len(store') >= Len(store) /\ SubSeq(store', 1, Len(store)) = store]_vars
    /\ [][/\ created \subseteq created'
          /\ \A Q \in created' \ created :
                \E t \in Threads : calls[t].proj = Q /\ calls[t].pc = "track_b"]_vars

(***************************************************************************)
(* Properties of the delta arithmetic                                      *)
(***************************************************************************)
\* C11: in every computed ProfitabilityDelta change_amount is the current
\* profitability minus the baseline profitability and is_improvement is true
\* exactly when change_amount > 0, so false for a zero or negative change.
C11_ChangeAndImprovement ==
    \A i \in 1..Len(deltaOut) :
        LET d == deltaOut[i]
        IN /\ d.current_profitability = deltaIn.current
           /\ d.baseline_profitability = deltaIn.baseline
           /\ d.change_amount = deltaIn.current - deltaIn.baseline
           /\ d.is_improvement = (d.change_amount > 0)
           /\ d.change_amount <= 0 => d.is_improvement = FALSE

\* C11 witness: a delta of equal amounts was computed: the change is zero
\* and it is not an improvement.
C11_Witness ==
    /\ deltaOut # <<>>
    /\ deltaIn.current = deltaIn.baseline /\ deltaIn.current # 0
    /\ deltaOut[1].change_amount = 0
    /\ deltaOut[1].is_improvement = FALSE

\* C12: change_percentage is None exactly when the baseline is zero;
\* otherwise it is change_amount / |baseline| * 100, so it has the sign of
\* change_amount also for a negative baseline; 100000 -> 97000 gives -3000
\* and -3.
C12_Percentage ==
    \A i \in 1..Len(deltaOut) :
        LET d == deltaOut[i]
            pc == d.change_percentage
        IN /\ pc.none <=> (deltaIn.baseline = 0)
           /\ ~pc.none =>
                /\ pc.den > 0
                /\ Abs(deltaIn.baseline) % pc.den = 0
                /\ pc.num * (Abs(deltaIn.baseline) \div pc.den) = d.change_amount * 100
                /\ (pc.num > 0) = (d.change_amount > 0)
                /\ (pc.num < 0) = (d.change_amount < 0)
           /\ (deltaIn.baseline = 100000 /\ deltaIn.current = 97000) =>
                (d.change_amount = -3000 /\ pc.num = -3 /\ pc.den = 1)

\* C12 witness: a delta against a negative baseline was computed and both
\* the change and the percentage are positive.
C12_Witness ==
    /\ deltaOut # <<>>
    /\ deltaIn.baseline < 0
    /\ deltaOut[1].change_amount > 0
    /\ deltaOut[1].change_percentage.num > 0

(***************************************************************************)
(* Properties of deltas and trends in the tracker                          *)
(***************************************************************************)
\* C13: whenever a ProfitabilityDelta is computed, its baseline figure is the
\* total_profitability of a baseline of the snapshot's project that no other
\* baseline of that project exceeds in created_at at that moment, and its
\* current figure is that of the snapshot.
C13_DeltaAgainstLatestBaseline ==
    [][\A t \in Threads :
          (calls[t].pc = "delta" /\ calls'[t].delta # <<>>) =>
             LET c == calls'[t]
                 P == store[c.snap].project
                 b == c.deltaBase
             IN /\ P = c.proj
                /\ b \in Baselines(P, store)
                /\ \A j \in Baselines(P, store) : store[j].created_at <= store[b].created_at
                /\ c.delta[1].baseline_profitability = store[b].total_profitability
                /\ c.delta[1].current_profitability = store[c.snap].total_profitability
                /\ c.delta[1] = ProfitabilityDelta(store[c.snap].total_profitability,
                                                   store[b].total_profitability)]_vars

\* C13 witness: a project has an older and a newer baseline with different
\* figures, and a delta of a comparison snapshot was computed against the
\* newer one.
C13_Witness ==
    \E t \in Threads :
        LET c == calls[t]
        IN /\ c.pc = "done" /\ c.op = "snapshot" /\ c.delta # <<>>
           /\ \E j \in Baselines(c.proj, store) :
                 /\ store[j].created_at < store[c.deltaBase].created_at
                 /\ store[j].total_profitability # store[c.deltaBase].total_profitability
           /\ c.delta[1].baseline_profitability = store[c.deltaBase].total_profitability

\* C14: when a create_baseline or snapshot_after_change call during which
\* the profitability calculation failed returns, it returns success = false,
\* has persisted no row and has not added its project to the session set.
C14_CalcFailureIsFailure ==
    [][\A t \in Threads :
          (calls[t].pc # "done" /\ calls'[t].pc = "done" /\ calls[t].calcFailed
              /\ calls[t].op \in {"baseline", "snapshot"}) =>
             LET c == calls'[t]
             IN /\ ~c.success
                /\ c.wroteBase = 0 /\ c.wroteSnap = 0
                /\ Len(store') = c.len0
                /\ (~c.startedCreated => c.proj \notin created')]_vars

\* C15: the snapshot store is append-only: every step of every tracker
\* operation leaves each stored row in place with its contents and at most
\* adds rows after them.
C15_AppendOnly ==
    [][/\ Len(store') >= Len(store)
       /\ \A i \in 1..Len(store) : store'[i] = store[i]]_vars

\* C15 witness: the baseline of an earlier session is still the first row,
\* unchanged, after a snapshot_after_change call appended a row and a trends
\* call ran.
C15_Witness ==
    /\ Len(store) >= 2
    /\ store[1] = OldBaseline
    /\ \E t, u \in Threads :
          /\ calls[t].pc = "done" /\ calls[t].op = "snapshot" /\ calls[t].wroteSnap = 1
          /\ calls[u].pc = "done" /\ calls[u].op = "trends" /\ calls[u].success

\* C16: with calls made one after another, a trends(P) call writes nothing;
\* when it returns a delta, that delta is of the row of P with the greatest
\* created_at against a baseline of P with the greatest created_at; when P
\* has no baseline it returns no delta but a "no data" or "no baseline"
\* result; and when P has a baseline and no read failed it returns success
\* with the delta.
C16_Trends ==
    /\ [][\A t \in Threads :
            (calls[t].op = "trends" /\ calls'[t] # calls[t]) =>
                (store' = store /\ created' = created)]_vars
    /\ [][\A t \in Threads :
            (calls[t].pc # "done" /\ calls'[t].pc = "done" /\ calls'[t].op = "trends") =>
              LET c == calls'[t]
                  P == c.proj
              IN /\ c.wroteBase = 0 /\ c.wroteSnap = 0 /\ Len(store') = c.len0
                 /\ Baselines(P, store) = {} =>
                      (c.delta = <<>> /\ (c.noData \/ c.noBaseline))
                 /\ c.delta # <<>> =>
                      /\ c.success /\ ~c.noData /\ ~c.noBaseline
                      /\ c.snap \in Snapshots(P, store)
                      /\ \A j \in Snapshots(P, store) :
                            store[j].created_at <= store[c.snap].created_at
                      /\ \E b \in Baselines(P, store) :
                            /\ \A j \in Baselines(P, store) :
                                  store[j].created_at <= store[b].created_at
                            /\ c.delta[1] = ProfitabilityDelta(store[c.snap].total_profitability,
                                                               store[b].total_profitability)
                 /\ (Baselines(P, store) # {} /\ ~c.dbErr) =>
                      (c.success /\ c.delta # <<>>)]_vars

\* C16 witness: a trends call returned the delta of a comparison snapshot
\* that differs from its baseline, the project holding at least two rows.
C16_Witness ==
    \E t \in Threads :
        LET c == calls[t]
        IN /\ c.pc = "done" /\ c.op = "trends" /\ c.success /\ c.delta # <<>>
           /\ store[c.snap].baseline_id # 0
           /\ c.delta[1].change_amount # 0
           /\ Cardinality(Snapshots(c.proj, store)) >= 2

(***************************************************************************)
(* Properties of the time-off impact scan                                  *)
(***************************************************************************)
\* the task rows get_staffer_task_assignments returned
Reported == {taskOut.assignments[k] : k \in 1..Len(taskOut.assignments)}

\* the rows whose two dates are present and parse, the window parsing too
Dated ==
    {i \in 1..Len(taskIn.rows) :
        /\ Parses(taskIn.rows[i].start) /\ Parses(taskIn.rows[i].due)
        /\ Parses(taskIn.start_date) /\ Parses(taskIn.end_date)}

\* C17 as stated: a task with both dates is reported exactly when its
\* interval and the window intersect as closed intervals of instants:
\* not (task_due < window_start or task_start > window_end); stated for
\* well-formed intervals.
C17_InstantOverlap ==
    (taskOut.returned /\ taskIn.ok) =>
        \A i \in Dated :
            (taskIn.rows[i].start.at <= taskIn.rows[i].due.at
                /\ taskIn.start_date.at <= taskIn.end_date.at) =>
               ((i \in Reported) <=>
                   ~(taskIn.rows[i].due.at < taskIn.start_date.at
                        \/ taskIn.rows[i].start.at > taskIn.end_date.at))

\* C17 amended: the four values are first reduced to their calendar dates;
\* a task with both dates is reported exactly when
\* not (date(task_due) < date(window_start) or date(task_start) > date(window_end)).
\* Every task whose interval shares an instant with the window, a single
\* boundary instant included, is therefore reported.
C17_CalendarOverlap ==
    (taskOut.returned /\ taskIn.ok) =>
        \A i \in Dated :
            LET r == taskIn.rows[i]
            IN /\ (i \in Reported) <=>
                    ~(date(r.due.at) < date(taskIn.start_date.at)
                         \/ date(r.start.at) > date(taskIn.end_date.at))
               /\ (\E x \in Instants :
                       /\ r.start.at <= x /\ x <= r.due.at
                       /\ taskIn.start_date.at <= x /\ x <= taskIn.end_date.at)
                    => i \in Reported

\* C17 witness: a task that ends on the day the window starts, before the
\* window's first instant, was reported; so was one whose last instant is the
\* window's first.
C17_Witness ==
    /\ taskOut.returned /\ taskIn.ok
    /\ \E i \in Dated :
          LET r == taskIn.rows[i]
          IN /\ i \in Reported
             /\ r.start.at <= r.due.at
             /\ taskIn.start_date.at <= taskIn.end_date.at
             /\ r.due.at < taskIn.start_date.at
             /\ date(r.due.at) = date(taskIn.start_date.at)

\* C18: a task whose start date or due date is absent or does not parse is
\* always reported, whatever the window.
C18_UndatedReported ==
    (taskOut.returned /\ taskIn.ok) =>
        \A i \in 1..Len(taskIn.rows) :
            (~Parses(taskIn.rows[i].start) \/ ~Parses(taskIn.rows[i].due)) =>
                i \in Reported

\* C18 witness: a task without a start date whose due date lies before the
\* window was reported.
C18_Witness ==
    /\ taskOut.returned /\ taskIn.ok
    /\ Parses(taskIn.start_date) /\ Parses(taskIn.end_date)
    /\ \E i \in 1..Len(taskIn.rows) :
          /\ taskIn.rows[i].start = NoDate
          /\ Parses(taskIn.rows[i].due)
          /\ date(taskIn.rows[i].due.at) < date(taskIn.start_date.at)
          /\ i \in Reported

\* C19: when the task's interval or the window is malformed (its start after
\* its end), the task is reported as overlapping wherever the other interval
\* lies.
C19_MalformedOverlaps ==
    (taskOut.returned /\ taskIn.ok) =>
        \A i \in Dated :
            (\/ taskIn.rows[i].start.at > taskIn.rows[i].due.at
             \/ taskIn.start_date.at > taskIn.end_date.at) =>
                i \in Reported

(***************************************************************************)
(* Properties of the availability filter                                   *)
(***************************************************************************)
\* the ids of the staffers the tool returned
ReturnedIds == {availOut.staffers[i].staffer_id : i \in 1..Len(availOut.staffers)}

\* the time-off rows of the staffer in row r of the table whose two datetimes
\* are present and parse
DatedPto(r) ==
    {k \in 1..Len(availIn.table[r].pto) :
        Parses(availIn.table[r].pto[k].start) /\ Parses(availIn.table[r].pto[k].end)}

\* C20: a staffer other than the excluded one is returned exactly when none
\* of the staffer's time-off records overlaps the window under the overlap
\* test (closed intervals of calendar dates, a malformed interval, start after
\* end, counting as overlapping) and, when project ids are supplied, the
\* staffer is a member of a team of one of them; stated for calls whose
\* queries succeed and whose window parses, over the records that carry both
\* datetimes.
C20_AvailableIff ==
    LET Overlap(aStart, aEnd, bStart, bEnd) ==
            \/ aStart > aEnd
            \/ bStart > bEnd
            \/ ~(date(aEnd) < date(bStart) \/ date(aStart) > date(bEnd))
    IN (availOut.returned /\ availIn.ok
           /\ Parses(availIn.start_date) /\ Parses(availIn.end_date)) =>
          \A r \in 1..Len(availIn.table) :
             (availIn.table[r].id \in ReturnedIds) <=>
                /\ availIn.table[r].id # availIn.exclude
                /\ ~\E k \in DatedPto(r) :
                       Overlap(availIn.table[r].pto[k].start.at,
                               availIn.table[r].pto[k].end.at,
                               availIn.start_date.at, availIn.end_date.at)
                /\ (availIn.project_ids.given /\ availIn.project_ids.ids # {}) =>
                       availIn.table[r].teams \cap availIn.project_ids.ids # {}

\* C21: a staffer who has a time-off record overlapping the requested window
\* (the record and the window, both closed and well formed, share an instant)
\* is never in the list of available staffers the tool returns, and no
\* NewTaskAssignment of a result handle_resource_management returns names
\* such a staffer; when project ids are supplied and the only staffer of the
\* table who is a member of a team of one of them has such a record, the
\* list is empty, whoever else is in the table.
C21_NoConflictingCandidate ==
    LET Conflicting ==
            {r \in 1..Len(availIn.table) :
                \E k \in DatedPto(r) :
                    \E i \in Instants :
                        /\ availIn.table[r].pto[k].start.at <= i
                        /\ i <= availIn.table[r].pto[k].end.at
                        /\ availIn.start_date.at <= i
                        /\ i <= availIn.end_date.at}
        Team ==
            {r \in 1..Len(availIn.table) :
                availIn.table[r].teams \cap availIn.project_ids.ids # {}}
    IN /\ availOut.returned =>
             /\ \A r \in Conflicting : availIn.table[r].id \notin ReturnedIds
             /\ \A r \in Conflicting :
                   (availIn.project_ids.given /\ Team = {r}) => availOut.staffers = <<>>
       /\ req.pc = "returned" =>
             \A a \in req.result.new_assignments :
                \A r \in Conflicting : a.new_staffer_id # availIn.table[r].id

\* C21 witness: a request was answered with success after its agent called
\* the tool for a project whose only team member, not the staffer on leave,
\* has a time-off record that begins before the window and ends inside it,
\* while the other staffer of the table is free and in no team of the
\* project: the tool returned nobody and the result holds no assignment
C21_Witness ==
    /\ req.pc = "returned" /\ req.ran /\ req.result.success
    /\ req.result.new_assignments = {}
    /\ availOut.returned /\ availIn.ok
    /\ availIn.start_date.at < availIn.end_date.at
    /\ Len(availIn.table) = 2
    /\ \E r \in 1..2 :
          /\ availIn.table[r].id # availIn.exclude
          /\ availIn.table[r].teams \cap availIn.project_ids.ids # {}
          /\ Len(availIn.table[r].pto) = 1
          /\ 1 \in DatedPto(r)
          /\ availIn.table[r].pto[1].start.at < availIn.start_date.at
          /\ availIn.table[r].pto[1].end.at >= availIn.start_date.at
          /\ availIn.table[r].pto[1].end.at < availIn.end_date.at
          /\ availIn.table[3 - r].id # availIn.exclude
          /\ availIn.table[3 - r].pto = <<>>
          /\ availIn.table[3 - r].teams \cap availIn.project_ids.ids = {}
    /\ availOut.staffers = <<>>

\* C26: an error of the data store met while a staffer's availability is
\* checked never lets that staffer be returned: when a query fails the tool
\* returns no staffer, and a staffer who has a time-off record that cannot
\* be read (one of its datetimes does not parse) is not in the list.
C26_ErrorsNeverAvailable ==
    availOut.returned =>
        /\ ~availIn.ok => availOut.staffers = <<>>
        /\ \A r \in 1..Len(availIn.table) :
              (\E k \in 1..Len(availIn.table[r].pto) :
                  \/ availIn.table[r].pto[k].start.kind = "bad"
                  \/ availIn.table[r].pto[k].end.kind = "bad") =>
                 availIn.table[r].id \notin ReturnedIds

(***************************************************************************)
(* Properties of the ranking                                               *)
(***************************************************************************)
\* C22: the list returned is a permutation of the staffers that pass the
\* filter (every one of them once, nobody else, the excluded staffer absent),
\* in descending order of seniority (no seniority counting as level 0) and,
\* at equal seniority, of capacity; staffers equal on both keys are in the
\* order of their rows in the staffers table.
C22_RankedPermutation ==
    LET table == availIn.table
        out == availOut.staffers
        Filtered == {r \in 1..Len(table) :
                        /\ table[r].id # availIn.exclude
                        /\ ~has_conflict(table[r].pto, date(availIn.start_date.at),
                                         date(availIn.end_date.at))
                        /\ is_on_project_team(table[r].teams, availIn.project_ids)}
        RowOf(i) == CHOOSE r \in 1..Len(table) : table[r].id = out[i].staffer_id
        Level(x) == IF x.seniority_level = NoSeniority THEN 0 ELSE x.seniority_level
    IN availOut.returned =>
          /\ Len(out) = Cardinality(Filtered)
          /\ \A r \in Filtered :
                \E i \in 1..Len(out) : out[i] = StafferInfo(table[r])
          /\ \A i \in 1..Len(out) : out[i].staffer_id # availIn.exclude
          /\ \A i, j \in 1..Len(out) :
                i < j =>
                   /\ Level(out[i]) >= Level(out[j])
                   /\ Level(out[i]) = Level(out[j]) =>
                          out[i].capacity >= out[j].capacity
                   /\ (Level(out[i]) = Level(out[j])
                          /\ out[i].capacity = out[j].capacity) =>
                          RowOf(i) < RowOf(j)

\* C22 witness: three staffers were ranked, the first two returned are equal
\* on both keys and the sort has moved a staffer ahead of one whose row comes
\* earlier in the table
C22_Witness ==
    /\ availOut.returned
    /\ Len(availOut.staffers) = 3
    /\ sort_key(availOut.staffers[1]) = sort_key(availOut.staffers[2])
    /\ sort_key(availOut.staffers[2]) # sort_key(availOut.staffers[3])
    /\ availOut.staffers[3].staffer_id = availIn.table[1].id
    /\ availOut.staffers[1].seniority_level = NoSeniority

(***************************************************************************)
(* Properties of the time-off request handler                              *)
(***************************************************************************)
\* C23: a result handle_resource_management returns after the agent has run
\* carries, as affected_tasks_count, the number of the staffer's assignments
\* found overlapping the window.
C23_AffectedCount ==
    (reqIn.impl = "live" /\ req.pc = "returned" /\ req.ran /\ req.result.success) =>
        req.result.affected_tasks_count = reqIn.affected

\* C24: a result handle_resource_management returns after the agent has run
\* has, for every affected
\* task without available candidate, a warning for that task and no
\* assignment for it, and success is true; success is false only when the
\* request could not be evaluated (the data did not validate or the agent's
\* run failed).
C24_WarningPerUnresolved ==
    (reqIn.impl = "live" /\ req.pc = "returned") =>
        /\ (req.ran /\ req.result.success) =>
               \A t \in reqIn.unresolved :
                  /\ TaskWarning(t) \in req.result.warnings
                  /\ \A a \in req.result.new_assignments : a.task_id # t
        /\ req.ran => req.result.success

\* C25: no step of a time-off handler (handle_resource_management with the
\* tool calls of its agent, or resource_management_agent of the strands
\* package) changes a stored record, whether the handler returns a response,
\* returns an error, raises or is abandoned: the rows of staffer_assignments,
\* the row of project_tasks, the row of projects and the profitability
\* snapshots stay as they are; the rows of staffer_assignments change only in
\* a call of create_new_task_assignment or remove_task_assignment made
\* outside the handlers: a tool call of the executor or a direct call of the
\* tool of that name in the strands module.
C25_HandlerReadOnly ==
    /\ [][req' # req =>
             /\ assignments' = assignments
             /\ project_tasks' = project_tasks
             /\ projects' = projects
             /\ store' = store]_vars
    /\ [][assignments' # assignments =>
             /\ req' = req
             /\ \/ executor'.calls = executor.calls + 1
                \/ pm_agent'.calls = pm_agent.calls + 1]_vars

\* C25: a request was answered after its agent ran and called its tools,
\* and the table holds a row the executor's create_new_task_assignment added
C25_Witness ==
    /\ req.pc = "returned"
    /\ req.ran
    /\ req.calls = MaxToolCalls
    /\ executor.result = "success"
    /\ Len(assignments) = 2

(***************************************************************************)
(* Further properties of the event bus                                     *)
(***************************************************************************)
\* C27: every event relayed to an SSE connection carries the instant of its
\* own construction as timestamp, so two events of a connection constructed
\* at different instants carry different timestamps, and timestamps do not
\* decrease along the order of relay.
C27_OwnTimestamps ==
    \A c \in Conns :
        \A i, j \in 1..Len(log[c]) :
            /\ timestamp(log[c][i]) = created_at(log[c][i])
            /\ created_at(log[c][i]) # created_at(log[c][j]) =>
                   timestamp(log[c][i]) # timestamp(log[c][j])
            /\ i < j => timestamp(log[c][i]) <= timestamp(log[c][j])

\* C28: when the only subscribers that leave while an event is in flight are
\* SSE connections (their handler never suspends, so the emit is suspended at
\* another handler when they leave), every handler that stays subscribed has
\* received the event exactly once when emit returns.
C28_UnsubscribeKeepsDelivery ==
    \A e \in Finished :
        (present[e] \ stable[e] # {} /\ present[e] \ stable[e] \subseteq AllConns) =>
            \A h \in stable[e] : Count(e, log[h]) = 1

\* C29: when a handler raises during emit(e) and nobody unsubscribes in the
\* meantime, every other handler subscribed at the call has been invoked
\* with e.
C29_RaiseKeepsDelivery ==
    \A e \in Events :
        (raisedAt[e] \in Handlers /\ present[e] = stable[e]) =>
            \A h \in stable[e] \ {raisedAt[e]} : Count(e, log[h]) >= 1

(***************************************************************************)
(* Further properties of the tracker                                       *)
(***************************************************************************)
\* C30: when snapshot_after_change has returned success with an analysis,
\* the baseline_profitability of the analysis is the total_profitability of
\* the row the new snapshot names as baseline_id, which is the row returned
\* as baseline_snapshot; and every baseline_id stored names an existing
\* baseline row (one without baseline_id) of the same project.
C30_DeltaBaselineIsReferenced ==
    /\ \A t \in Threads :
          LET c == calls[t]
          IN (c.op = "snapshot" /\ c.pc = "done" /\ c.success /\ c.analysis) =>
                /\ store[c.snap].baseline_id = c.base
                /\ c.delta[1].baseline_profitability =
                      store[store[c.snap].baseline_id].total_profitability
    /\ \A i \in 1..Len(store) :
          store[i].baseline_id # 0 =>
             /\ store[i].baseline_id \in 1..Len(store)
             /\ store[store[i].baseline_id].baseline_id = 0
             /\ store[store[i].baseline_id].project = store[i].project

====
